---- MODULE Spec2Model ----
(***************************************************************************)
(* KreditaX credit scoring service: risk categorisation, the scoring       *)
(* endpoint (predict_credit_score), the audit logger (AuditLogger), the    *)
(* ratio computation (FeatureEngineer) and the fitted preprocessing        *)
(* pipeline (CreditPreprocessor).                                          *)
(*                                                                         *)
(* Number representation.                                                  *)
(*   - A probability is a fixed-point integer n standing for n / 100000.   *)
(*   - Money is counted in units of 1,000,000 IDR.                         *)
(*   - A float of the ratio computation is a pair <<n, d>>: the rational   *)
(*     n/d when d > 0 (kept in lowest terms), +inf = <<1,0>>,              *)
(*     -inf = <<-1,0>>, NaN = <<0,0>>.                                     *)
(***************************************************************************)
EXTENDS Integers, Sequences, FiniteSets, TLC

VARIABLES
  settings,      \* app.core.config.settings (fixed for a run of the service)
  audit_log,     \* the file at settings.audit_log_path: [exists, data]
  export_file,   \* the file export_logs writes: [exists, data]
  query_result,  \* what the last get_logs returned
  now,           \* the wall clock read by datetime.now()
  recorded,      \* rows appended to the audit log since the service started
  call,          \* the last operation called, with its inputs (history)
  response,      \* what the last predict_credit_score call gave its caller
  probability,   \* input of the risk categorisers
  tiers,         \* their last results
  pc,            \* per worker process: where its request handler stands
  job,           \* per worker process: the locals of its request handler
  observed,      \* per worker process: what its last read of the log returned
  X,             \* the frame (one row) a caller hands to FeatureEngineer.transform
  X_fe,          \* what FeatureEngineer.transform returned for it
  pipeline,      \* CreditPreprocessor.pipeline: the fitted state, or not fitted
  outputs,       \* per application: transform calls since the last fit, last result
  feature_names, \* get_feature_names calls since the last fit, last result
  instance,      \* what SHAPExplainer.explain_prediction is called on
  explained,     \* the dict it returned
  raw_features,  \* the feature dict handed to AuditLogger._mask_pii
  masked_features, \* what _mask_pii returned for it
  _model_service, \* the module global of model_service.py: 0 for None, else
                 \* the ModelService object, numbered in order of construction
  constructions, \* how many ModelService objects have been constructed
  thread         \* each request thread inside get_model_service

varsScore == <<settings, audit_log, export_file, query_result, now, recorded, call, response>>
varsRisk == <<probability, tiers>>
varsConc == <<pc, job, observed>>
varsMl == <<X, X_fe, pipeline, outputs, feature_names>>
varsExplain == <<instance, explained>>
varsMask == <<raw_features, masked_features>>
varsLoad == <<_model_service, constructions, thread>>
vars == <<varsScore, varsRisk, varsConc, varsMl, varsExplain, varsMask, varsLoad>>
besidesScore == <<varsRisk, varsConc, varsMl, varsExplain, varsMask, varsLoad>>
besidesRisk == <<varsScore, varsConc, varsMl, varsExplain, varsMask, varsLoad>>
besidesConc == <<varsRisk, varsMl, varsExplain, varsMask, varsLoad>>
besidesMl == <<varsRisk, varsConc, varsExplain, varsMask, varsLoad>>
besidesExplain == <<varsScore, varsRisk, varsConc, varsMl, varsMask, varsLoad>>

\* Python's None, distinct from every string the model uses.
None == "<None>"

(***************************************************************************)
(* Bounds of the model.                                                    *)
(***************************************************************************)
\* Rows appended to the audit log before recording stops.
MaxRecorded == 1
\* Ticks of the wall clock.
MaxClock == 1
\* Worker processes serving requests at the same time.
NumWorkers == 2
\* Scoring requests served by the worker processes.
MaxScoring == 2
\* Read requests (GET /audit-log) served.
MaxQueries == 1
\* Transform calls counted per application between two fits.
MaxTransforms == 2
\* Columns of the instance handed to the explainer.
NumFeatures == 3
\* Request threads that call get_model_service.
NumThreads == 3

(***************************************************************************)
(* Risk categorisation and decision.                                       *)
(***************************************************************************)

\* A plausible slip: the tier bounds taken inclusive.
_categorize_risk_inclusive(p) ==
  IF p <= 20000 THEN "VERY_LOW"
  ELSE IF p <= 40000 THEN "LOW"
  ELSE IF p <= 60000 THEN "MEDIUM"
  ELSE IF p <= 80000 THEN "HIGH"
  ELSE "VERY_HIGH"

\* A plausible slip: two tier names exchanged.
_categorize_risk_exchanged(p) ==
  IF p < 20000 THEN "VERY_LOW"
  ELSE IF p < 40000 THEN "MEDIUM"
  ELSE IF p < 60000 THEN "LOW"
  ELSE IF p < 80000 THEN "HIGH"
  ELSE "VERY_HIGH"

\* ModelService._categorize_risk
_categorize_risk(p) ==
  IF p < 20000 THEN "VERY_LOW"
  ELSE IF p < 40000 THEN "LOW"
  ELSE IF p < 60000 THEN "MEDIUM"
  ELSE IF p < 80000 THEN "HIGH"
  ELSE "VERY_HIGH"

\* SHAPExplainer._get_risk_category
_get_risk_category(p) ==
  IF p < 20000 THEN "VERY_LOW"
  ELSE IF p < 40000 THEN "LOW"
  ELSE IF p < 60000 THEN "MEDIUM"
  ELSE IF p < 80000 THEN "HIGH"
  ELSE "VERY_HIGH"

\* A plausible slip: rejection at the threshold itself.
DecisionAtOrAbove(prediction_score, threshold) ==
  IF prediction_score >= threshold THEN "REJECT" ELSE "APPROVE"

\* predict_credit_score: decision = "REJECT" if prediction_score > threshold else "APPROVE"
Decision(prediction_score, threshold) ==
  IF prediction_score > threshold THEN "REJECT" ELSE "APPROVE"

\* Settings.default_risk_threshold and the values an environment may set it to.
DefaultRiskThreshold == 50000
Thresholds == {DefaultRiskThreshold, 25000}

(***************************************************************************)
(* Python helpers.                                                         *)
(***************************************************************************)

PyRoundDown(n, d) == n \div d

\* round(n / d) for d > 0: to the nearest integer, a tie to the even one.
PyRound(n, d) ==
  LET q == n \div d
      r == n % d
  IN IF 2 * r < d THEN q
     ELSE IF 2 * r > d THEN q + 1
     ELSE IF q % 2 = 0 THEN q ELSE q + 1

\* x or y, for an optional string x: None and "" are falsy.
PyOr(x, y) == IF x \in {None, ""} THEN y ELSE x

\* str(uuid.uuid4()): a value that no entry, response or caller holds yet.
\* The k-th value stands for any fresh one (uuid4 collisions are not modelled).
Uuid(k) == "uuid-" \o ToString(k)
uuid4(used) ==
  LET k == CHOOSE i \in 1..(Cardinality(used) + 1) :
             Uuid(i) \notin used /\ \A j \in 1..(i - 1) : Uuid(j) \in used
  IN Uuid(k)

(***************************************************************************)
(* Explanations (SHAPExplainer), as far as the scoring endpoint and the    *)
(* audit logger read them.                                                 *)
(***************************************************************************)

\* A plausible slip: a zero contribution said to increase the risk.
_generate_explanation_text_zero_increases(prediction_proba, top_features) ==
  LET risk_level == IF prediction_proba > 50000 THEN "HIGH" ELSE "LOW"
      tenths == PyRound(prediction_proba, 100)
      percent == ToString(tenths \div 10) \o "." \o ToString(tenths % 10) \o "%"
      line(i) == ToString(i) \o ". " \o top_features[i].feature \o ": "
                   \o (IF top_features[i].shap_value >= 0 THEN "increases" ELSE "decreases")
                   \o " risk\n"
      lines[i \in 0..Len(top_features)] == IF i = 0 THEN "" ELSE lines[i - 1] \o line(i)
  IN [kind |-> "summary", risk_level |-> risk_level,
      text |-> "Credit Default Risk: " \o risk_level \o " (" \o percent \o " probability)\n\n"
                 \o "Key factors influencing this decision:\n" \o lines[Len(top_features)]]

\* SHAPExplainer._generate_explanation_text: the summary text, and the risk
\* level its header names.  {prediction_proba:.1%} is the probability in
\* percent with one decimal.
_generate_explanation_text(prediction_proba, top_features) ==
  LET risk_level == IF prediction_proba > 50000 THEN "HIGH" ELSE "LOW"
      tenths == PyRound(prediction_proba, 100)
      percent == ToString(tenths \div 10) \o "." \o ToString(tenths % 10) \o "%"
      line(i) == ToString(i) \o ". " \o top_features[i].feature \o ": "
                   \o (IF top_features[i].shap_value > 0 THEN "increases" ELSE "decreases")
                   \o " risk\n"
      lines[i \in 0..Len(top_features)] == IF i = 0 THEN "" ELSE lines[i - 1] \o line(i)
  IN [kind |-> "summary", risk_level |-> risk_level,
      text |-> "Credit Default Risk: " \o risk_level \o " (" \o percent \o " probability)\n\n"
                 \o "Key factors influencing this decision:\n" \o lines[Len(top_features)]]

\* The dict explain_prediction returns, for an instance whose five largest
\* contributions are those listed (predict.py asks for top_k=5).
explain_prediction(prediction_proba) ==
  LET top_features ==
        << [feature |-> "debt_service_ratio", shap_value |-> 100000],
           [feature |-> "credit_card_utilization", shap_value |-> 50000],
           [feature |-> "annual_income", shap_value |-> -50000],
           [feature |-> "past_delinquencies", shap_value |-> -50000],
           [feature |-> "employment_status_PERMANENT", shap_value |-> 0] >>
  IN [kind |-> "ok",
      prediction_probability |-> prediction_proba,
      explanation |-> _generate_explanation_text(prediction_proba, top_features),
      risk_category |-> _get_risk_category(prediction_proba)]

\* explanation = None (explainability disabled)
NoExplanation ==
  [kind |-> "none", prediction_probability |-> 0,
   explanation |-> [kind |-> "absent", risk_level |-> "", text |-> ""], risk_category |-> ""]

\* A plausible slip: the failure swallowed without a marker.
ErrorExplanationOmitted == NoExplanation

\* explanation = {"error": "Explanation generation failed"}
ErrorExplanation ==
  [kind |-> "error", prediction_probability |-> 0,
   explanation |-> [kind |-> "absent", risk_level |-> "", text |-> ""], risk_category |-> ""]

(***************************************************************************)
(* The audit log file.  A file is [exists, data]; data is a sequence of    *)
(* blocks.  The header line is one block; the row of one entry is longer   *)
(* than the header line and takes two blocks, written by one write.        *)
(***************************************************************************)

NoEntry ==
  [request_id |-> "", timestamp |-> <<>>, model_version |-> "", prediction_score |-> 0,
   risk_category |-> "", decision |-> "", explanation_summary |-> "",
   masked_features_hash |-> <<>>, user_id |-> ""]

AbsentFile == [exists |-> FALSE, data |-> <<>>]

\* datetime.isoformat() of the clock reading t, a text given character by
\* character.  The clock counts half seconds from 2024-01-15T10:30:00; the
\* fraction is left out when the microsecond is zero.
isoformat(t) ==
  <<"2", "0", "2", "4", "-", "0", "1", "-", "1", "5", "T", "1", "0", ":", "3", "0", ":", "0">>
    \o << ToString(t \div 2) >>
    \o (IF t % 2 = 0 THEN <<>> ELSE <<".", "5", "0", "0", "0", "0", "0">>)

\* Python's str comparison a <= b: by code point at the first place where
\* the texts differ, a prefix before its extensions.
StrLe(a, b) ==
  LET code_points == <<"-", ".", "0", "1", "2", "3", "4", "5", "6", "7", "8", "9", ":", "T">>
      ord(c) == CHOOSE i \in 1..Len(code_points) : code_points[i] = c
      differ == {i \in 1..Len(a) : i <= Len(b) /\ a[i] # b[i]}
  IN IF differ = {} THEN Len(a) <= Len(b)
     ELSE LET i == CHOOSE k \in differ : \A m \in differ : k <= m
          IN ord(a[i]) < ord(b[i])

\* The header row _initialize_log_file writes.
HeaderBlocks == << [kind |-> "header", entry |-> NoEntry, part |-> 1] >>

\* The bytes of one row, as to_csv(mode='a', header=False) writes them.
RowBlocks(log_entry) ==
  << [kind |-> "row", entry |-> log_entry, part |-> 1],
     [kind |-> "row", entry |-> log_entry, part |-> 2] >>

\* The records of a file's data: a header line, a complete row, or a fragment.
RECURSIVE Records(_)
Records(data) ==
  IF data = <<>> THEN <<>>
  ELSE IF data[1].kind = "header"
    THEN << [kind |-> "header", complete |-> TRUE, entry |-> NoEntry] >> \o Records(Tail(data))
  ELSE IF /\ Len(data) >= 2
          /\ data[1].part = 1
          /\ data[2].kind = "row" /\ data[2].part = 2
          /\ data[2].entry = data[1].entry
    THEN << [kind |-> "row", complete |-> TRUE, entry |-> data[1].entry] >>
           \o Records(Tail(Tail(data)))
  ELSE << [kind |-> "row", complete |-> FALSE, entry |-> data[1].entry] >> \o Records(Tail(data))

\* pd.read_csv(path): the first record gives the column names, the others the rows.
\* An empty file raises EmptyDataError.
read_csv(file) ==
  IF file.data = <<>> THEN [raises |-> TRUE, rows |-> <<>>]
  ELSE [raises |-> FALSE, rows |-> Tail(Records(file.data))]

\* The entries of the log, in file order.
Rows(file) == IF file.data = <<>> THEN <<>> ELSE Tail(Records(file.data))

\* AuditLogger._initialize_log_file: DataFrame(columns=headers).to_csv(path).
_initialize_log_file(file) == [exists |-> TRUE, data |-> HeaderBlocks]

\* A plausible slip: the header file written on every construction.
AuditLoggerNewAlways(file) == _initialize_log_file(file)

\* AuditLogger.__init__: the file after construction.
AuditLoggerNew(file) == IF ~file.exists THEN _initialize_log_file(file) ELSE file

\* AuditLogger._hash_value: the first 16 hex digits of SHA-256, kept symbolic
\* (two digests are equal exactly when their inputs are).
_hash_value(value) == << "sha256", value >>

pii_fields == {"application_id", "name", "email", "phone", "address"}
partial_mask_fields == {"annual_income", "loan_amount", "total_existing_debt"}

\* AuditLogger._mask_pii: identifiers hashed, money rounded to the nearest
\* 10,000,000 (10 units of 1,000,000).
_mask_pii(features) ==
  [field \in DOMAIN features |->
     IF field \in pii_fields THEN _hash_value(features[field])
     ELSE IF field \in partial_mask_fields THEN PyRound(features[field], 10) * 10
     ELSE features[field]]

\* A plausible slip: the score cut to 4 decimals.
Round4Truncating(prediction_score) == prediction_score \div 10

\* round(prediction_score, 4): in units of 1/10000.
Round4(prediction_score) == PyRound(prediction_score, 10)

\* A plausible slip: the summary stored whole.
ExplanationGetWhole(explanation) ==
  IF explanation.kind = "ok" THEN explanation.explanation.text ELSE "No explanation available"

\* explanation.get('explanation', 'No explanation available'), cut after
\* 200 characters: explanation_summary[:200] + "..."
ExplanationGet(explanation) ==
  LET explanation_summary ==
        IF explanation.kind = "ok" THEN explanation.explanation.text
        ELSE "No explanation available"
  IN IF Len(explanation_summary) > 200
     THEN SubSeq(explanation_summary, 1, 200) \o "..."
     ELSE explanation_summary

\* A plausible slip: the application id stored when no user is given.
LogEntryIdAsUser(request_id, features, prediction_score, risk_category, explanation, user_id, timestamp, fresh) ==
  [request_id |-> IF request_id = None THEN fresh ELSE request_id,
   timestamp |-> timestamp,
   model_version |-> "1.0.0",
   prediction_score |-> Round4(prediction_score),
   risk_category |-> risk_category,
   decision |-> IF prediction_score > 50000 THEN "REJECT" ELSE "APPROVE",
   explanation_summary |-> ExplanationGet(explanation),
   masked_features_hash |-> _hash_value(_mask_pii(features)),
   user_id |-> PyOr(user_id, features.application_id)]

\* A plausible slip: rejection at 0.5 itself.
LogEntryRejectAtHalf(request_id, features, prediction_score, risk_category, explanation, user_id, timestamp, fresh) ==
  [request_id |-> IF request_id = None THEN fresh ELSE request_id,
   timestamp |-> timestamp,
   model_version |-> "1.0.0",
   prediction_score |-> Round4(prediction_score),
   risk_category |-> risk_category,
   decision |-> IF prediction_score >= 50000 THEN "REJECT" ELSE "APPROVE",
   explanation_summary |-> ExplanationGet(explanation),
   masked_features_hash |-> _hash_value(_mask_pii(features)),
   user_id |-> PyOr(user_id, "anonymous")]

\* AuditLogger.log_prediction: the log entry it builds.
LogEntry(request_id, features, prediction_score, risk_category, explanation, user_id, timestamp, fresh) ==
  [request_id |-> IF request_id = None THEN fresh ELSE request_id,
   timestamp |-> timestamp,
   model_version |-> "1.0.0",
   prediction_score |-> Round4(prediction_score),
   risk_category |-> risk_category,
   decision |-> IF prediction_score > 50000 THEN "REJECT" ELSE "APPROVE",
   explanation_summary |-> ExplanationGet(explanation),
   masked_features_hash |-> _hash_value(_mask_pii(features)),
   user_id |-> PyOr(user_id, "anonymous")]

\* A plausible slip: the file rewritten with the new row alone.
AppendRowTruncating(file, log_entry) ==
  [exists |-> TRUE, data |-> HeaderBlocks \o RowBlocks(log_entry)]

\* df.to_csv(self.log_path, mode='a', header=False, index=False)
AppendRow(file, log_entry) ==
  [exists |-> TRUE, data |-> file.data \o RowBlocks(log_entry)]

(***************************************************************************)
(* The scoring endpoint: app/api/v1/predict.py, predict_credit_score.      *)
(***************************************************************************)

\* A validated CreditApplication, as request.application.model_dump() gives it
\* (the schema's example; money in units of 1,000,000).
SampleApplication ==
  [application_id |-> "APP-001", age |-> 30, gender |-> "MALE",
   marital_status |-> "MARRIED", education |-> "S1", housing_type |-> "OWNED",
   annual_income |-> 120, employment_status |-> "PERMANENT",
   work_experience_years |-> 5, existing_loans_count |-> 1,
   total_existing_debt |-> 5, credit_card_utilization |-> 30000,
   past_delinquencies |-> 0, loan_amount |-> 50, loan_term_months |-> 12,
   is_default |-> None]

\* PredictionRequest: request_id and user_id are Optional[str].
Requests ==
  {[application |-> SampleApplication, request_id |-> None, user_id |-> None],
   [application |-> SampleApplication, request_id |-> "", user_id |-> "analyst-1"],
   [application |-> SampleApplication, request_id |-> "req-1", user_id |-> "analyst-1"]}

\* What model_service.predict does: the classifier (or the preprocessing
\* before it) raises, or predict_proba gives a probability.
ScoreProbs == {25000, 50000, 50006, 55000}
ClassifierOutcomes ==
  {[raises |-> TRUE, p |-> 0]} \cup {[raises |-> FALSE, p |-> q] : q \in ScoreProbs}

\* How the explanation block ends: normally, or with an exception raised by
\* model_service.preprocess, by SHAPExplainer(...) or by explain_prediction.
ExplainOutcomes == {"ok", "preprocess_raises", "init_raises", "explain_raises"}

\* How the audit block ends: normally, or with an exception raised by
\* AuditLogger(...) or by log_prediction (before anything is written).
AuditOutcomes == {"ok", "init_raises", "log_raises"}

NoCall ==
  [op |-> "none", request_id |-> None, oracle |-> [raises |-> FALSE, p |-> 0],
   explain |-> "ok", audit |-> "ok", raised |-> FALSE]

\* No response yet.
NoResponse ==
  [status |-> 0, request_id |-> "", prediction_score |-> 0, risk_category |-> "",
   decision |-> "", explanation |-> NoExplanation]

\* raise HTTPException(status_code=500, ...)
HTTPException500 == [NoResponse EXCEPT !.status = 500]

\* PredictionResponse(...)
PredictionResponse(request_id, prediction_score, risk_category, decision, explanation) ==
  [status |-> 200, request_id |-> request_id, prediction_score |-> prediction_score,
   risk_category |-> risk_category, decision |-> decision, explanation |-> explanation]

\* The request ids the log holds.
UsedIds(file) == {Rows(file)[i].entry.request_id : i \in 1..Len(Rows(file))}

\* The explanation block of predict_credit_score (lines 65-83).
ExplanationBlock(prediction_score, explain) ==
  IF ~settings.enable_explainability THEN NoExplanation
  ELSE IF explain # "ok" THEN ErrorExplanation
  ELSE explain_prediction(prediction_score)

\* A plausible slip: the audit failure left to propagate to the outer handler.
AuditFailureResponsePropagated(ok_response, audit) ==
  IF settings.enable_audit_logging /\ audit # "ok" THEN HTTPException500 ELSE ok_response

\* What the caller gets when the audit block has run: its exceptions are caught.
AuditFailureResponse(ok_response, audit) == ok_response

\* The audit block of predict_credit_score (lines 85-98): the file afterwards.
AuditBlock(file, audit, entry) ==
  IF ~settings.enable_audit_logging \/ audit = "init_raises" THEN file
  ELSE IF audit = "log_raises" THEN AuditLoggerNew(file)
  ELSE AppendRow(AuditLoggerNew(file), entry)

\* A plausible slip: the entry recorded before the prediction is made.
FileAfterFailedPredictionLogged(file, entry) == AppendRow(AuditLoggerNew(file), entry)

\* The file after a call whose prediction raised: the audit block is not reached.
FileAfterFailedPrediction(file, entry) == file

\* The blocks a call reaches: none once the prediction has raised.
ExplanationBlockRuns(oracle) == ~oracle.raises /\ settings.enable_explainability
AuditBlockRuns(oracle) == ~oracle.raises /\ settings.enable_audit_logging

PredictCreditScore ==
  /\ recorded < MaxRecorded
  /\ \E request \in Requests, oracle \in ClassifierOutcomes :
     \E explain \in (IF ExplanationBlockRuns(oracle) THEN ExplainOutcomes ELSE {"ok"}),
        audit \in (IF AuditBlockRuns(oracle) THEN AuditOutcomes ELSE {"ok"}) :
       LET fresh == uuid4(UsedIds(audit_log))
           request_id == PyOr(request.request_id, fresh)
           features == request.application
           prediction_score == oracle.p
           risk_category == _categorize_risk(prediction_score)
           decision == Decision(prediction_score, settings.default_risk_threshold)
           explanation == ExplanationBlock(prediction_score, explain)
           entry == LogEntry(request_id, features, prediction_score, risk_category,
                             explanation, request.user_id, isoformat(now), fresh)
       IN /\ call' = [op |-> "predict_credit_score", request_id |-> request.request_id,
                      oracle |-> oracle, explain |-> explain, audit |-> audit,
                      raised |-> oracle.raises]
          /\ IF oracle.raises
             THEN /\ response' = HTTPException500
                  /\ audit_log' = FileAfterFailedPrediction(audit_log, entry)
             ELSE /\ response' = AuditFailureResponse(
                       PredictionResponse(request_id, prediction_score, risk_category,
                                          decision, explanation),
                       audit)
                  /\ audit_log' = AuditBlock(audit_log, audit, entry)
          /\ recorded' = recorded + (Len(Rows(audit_log')) - Len(Rows(audit_log)))
  /\ UNCHANGED <<settings, export_file, query_result, now, besidesScore>>

\* Time passes.
Tick ==
  /\ now < MaxClock
  /\ now' = now + 1
  /\ call' = [NoCall EXCEPT !.op = "tick"]
  /\ UNCHANGED <<settings, audit_log, export_file, query_result, recorded, response, besidesScore>>

SettingsValues ==
  [default_risk_threshold : Thresholds, enable_explainability : BOOLEAN,
   enable_audit_logging : BOOLEAN]

\* An entry an earlier run of the service recorded (the sample call of
\* audit_service.py's self-test, with a caller-supplied request id).
PriorEntry ==
  [request_id |-> "req-1", timestamp |-> isoformat(0), model_version |-> "1.0.0",
   prediction_score |-> 2500, risk_category |-> "LOW", decision |-> "APPROVE",
   explanation_summary |-> "Low risk due to stable income and good credit history",
   masked_features_hash |-> _hash_value(_mask_pii(SampleApplication)),
   user_id |-> "test_user"]

\* The audit log the service finds when it starts: none, or one kept from an earlier run.
StartLogs == {AbsentFile, AppendRow(_initialize_log_file(AbsentFile), PriorEntry)}

InitScore ==
  /\ settings \in SettingsValues
  /\ audit_log \in StartLogs
  /\ export_file = AbsentFile
  /\ query_result = <<>>
  /\ now = 0
  /\ recorded = 0
  /\ call = NoCall
  /\ response = NoResponse

InitRiskIdle ==
  /\ probability = 0
  /\ tiers = [model_service |-> "", explainer |-> ""]

(***************************************************************************)
(* Floats.  <<n, d>> with d > 0 is the rational n/d in lowest terms;       *)
(* <<1,0>> is +inf, <<-1,0>> is -inf, <<0,0>> is NaN.  Division by zero     *)
(* follows pandas/numpy: it gives +-inf or NaN and raises nothing.         *)
(***************************************************************************)
NaN == <<0, 0>>

RECURSIVE Gcd(_, _)
Gcd(a, b) == IF b = 0 THEN a ELSE Gcd(b, a % b)

Float(n, d) ==
  LET abs(k) == IF k < 0 THEN -k ELSE k
      g == Gcd(abs(n), abs(d))
  IN IF d = 0 THEN <<(IF n > 0 THEN 1 ELSE IF n < 0 THEN -1 ELSE 0), 0>>
     ELSE IF d < 0 THEN <<(-n) \div g, (-d) \div g>>
     ELSE <<n \div g, d \div g>>

IsFinite(a) == a[2] # 0

FAddNegated(a, b) ==
  IF IsFinite(a) /\ IsFinite(b)
  THEN LET l == (a[2] \div Gcd(a[2], b[2])) * b[2]
       IN Float(a[1] * (l \div a[2]) - b[1] * (l \div b[2]), l)
  ELSE NaN

\* a + b
FAdd(a, b) ==
  IF IsFinite(a) /\ IsFinite(b)
  THEN LET l == (a[2] \div Gcd(a[2], b[2])) * b[2]
       IN Float(a[1] * (l \div a[2]) + b[1] * (l \div b[2]), l)
  ELSE IF a = NaN \/ b = NaN THEN NaN
  ELSE IF ~IsFinite(a) /\ ~IsFinite(b) THEN (IF a = b THEN a ELSE NaN)
  ELSE IF ~IsFinite(a) THEN a ELSE b

\* a - b
FSub(a, b) == FAdd(a, <<-b[1], b[2]>>)

\* a * b
FMul(a, b) == Float(a[1] * b[1], a[2] * b[2])

\* a / b
FDiv(a, b) ==
  LET n == a[1] * b[2]
      d == a[2] * b[1]
  IN IF d = 0 /\ b[1] < 0 THEN Float(-n, 0) ELSE Float(n, d)

\* A plausible slip: a <= b.
FLessOrEqual(a, b) ==
  LET key(x) == IF IsFinite(x) THEN 0 ELSE x[1]
  IN IF a = NaN \/ b = NaN THEN FALSE
     ELSE IF IsFinite(a) /\ IsFinite(b) THEN a[1] * b[2] <= b[1] * a[2]
     ELSE key(a) <= key(b)

\* a < b (False when either is NaN)
FLess(a, b) ==
  LET key(x) == IF IsFinite(x) THEN 0 ELSE x[1]
  IN IF a = NaN \/ b = NaN THEN FALSE
     ELSE IF IsFinite(a) /\ IsFinite(b) THEN a[1] * b[2] < b[1] * a[2]
     ELSE key(a) < key(b)

(***************************************************************************)
(* FeatureEngineer (src/ml/features/preprocessing.py).                     *)
(***************************************************************************)

\* The frame of the test suite (sample_data), money in units of 1,000,000.
sample_data ==
  << [age |-> <<30, 1>>, gender |-> "MALE", marital_status |-> "MARRIED",
      education |-> "S1", housing_type |-> "OWNED", annual_income |-> <<120, 1>>,
      employment_status |-> "PERMANENT", work_experience_years |-> <<5, 1>>,
      existing_loans_count |-> <<1, 1>>, total_existing_debt |-> <<5, 1>>,
      credit_card_utilization |-> <<3, 10>>, past_delinquencies |-> <<0, 1>>,
      loan_amount |-> <<50, 1>>, loan_term_months |-> <<12, 1>>],
     [age |-> <<25, 1>>, gender |-> "FEMALE", marital_status |-> "SINGLE",
      education |-> "SMA", housing_type |-> "RENTED", annual_income |-> <<60, 1>>,
      employment_status |-> "CONTRACT", work_experience_years |-> <<2, 1>>,
      existing_loans_count |-> <<0, 1>>, total_existing_debt |-> <<0, 1>>,
      credit_card_utilization |-> <<1, 10>>, past_delinquencies |-> <<0, 1>>,
      loan_amount |-> <<20, 1>>, loan_term_months |-> <<6, 1>>],
     [age |-> <<40, 1>>, gender |-> "MALE", marital_status |-> "MARRIED",
      education |-> "S2", housing_type |-> "OWNED", annual_income |-> <<200, 1>>,
      employment_status |-> "PERMANENT", work_experience_years |-> <<15, 1>>,
      existing_loans_count |-> <<2, 1>>, total_existing_debt |-> <<10, 1>>,
      credit_card_utilization |-> <<1, 2>>, past_delinquencies |-> <<1, 1>>,
      loan_amount |-> <<100, 1>>, loan_term_months |-> <<24, 1>>] >>

\* FeatureEngineer.transform: the frame with the four derived columns added.
\* Nothing in it raises.
FeatureEngineerTransform(frame) ==
  LET monthly_income == FDiv(frame.annual_income, <<12, 1>>)
      new_installment == FDiv(frame.loan_amount, frame.loan_term_months)
      existing_monthly_debt == FMul(frame.total_existing_debt, <<3, 100>>)
      debt_service_ratio == FDiv(FAdd(existing_monthly_debt, new_installment), monthly_income)
  IN [raises |-> FALSE,
      frame |-> [debt_service_ratio |-> debt_service_ratio,
                 income_to_loan_ratio |-> FDiv(frame.annual_income, frame.loan_amount),
                 disposable_income |-> FSub(FSub(monthly_income, existing_monthly_debt), new_installment),
                 is_high_risk_dsr |-> IF FLess(<<2, 5>>, debt_service_ratio) THEN 1 ELSE 0]
                @@ frame]

\* No call of FeatureEngineer.transform yet.
NoFrame == [raises |-> FALSE, frame |-> <<>>]

\* Frames handed to FeatureEngineer.transform: the first row of sample_data
\* with the four columns the ratios read taken from small sets, zero and a
\* negative debt among them (transform itself accepts any frame).
FrameInputs ==
  { [sample_data[1] EXCEPT !.annual_income = <<i, 1>>, !.loan_amount = <<l, 1>>,
                           !.loan_term_months = <<t, 1>>, !.total_existing_debt = <<d, 1>>] :
      i \in {0, 60, 120, 200}, l \in {0, 48, 50, 100}, t \in {0, 6, 12, 24},
      d \in {-200, 0, 5, 10} }

(***************************************************************************)
(* CreditPreprocessor: FeatureEngineer, then a ColumnTransformer of        *)
(* (median imputer, StandardScaler) over num_features and (most-frequent   *)
(* imputer, OneHotEncoder(handle_unknown='ignore')) over cat_features.     *)
(* A standardised value (x - mean) / sqrt(var) is kept as the pair of its  *)
(* numerator and of the variance under the root.                           *)
(***************************************************************************)
cat_features == <<"gender", "marital_status", "education", "housing_type", "employment_status">>

num_features ==
  <<"age", "annual_income", "work_experience_years", "existing_loans_count",
    "total_existing_debt", "credit_card_utilization", "past_delinquencies",
    "loan_amount", "loan_term_months", "debt_service_ratio", "income_to_loan_ratio",
    "disposable_income">>

\* The category strings in the order Python sorts them.
SortedStrings ==
  <<"CONTRACT", "D3", "DIVORCED", "FEMALE", "MALE", "MARRIED", "OWNED", "PARENTS",
    "PERMANENT", "RENTED", "S1", "S2", "S3", "SD", "SELF_EMPLOYED", "SINGLE", "SMA",
    "SMP", "UNEMPLOYED">>

\* A missing categorical value (np.nan in an object column).
MissingCategory == "nan"

\* self.pipeline = None
NoPipeline == [fitted |-> FALSE]

\* SimpleImputer(strategy='median').fit and StandardScaler.fit on one column.
FitNumeric(column) ==
  LET n == Len(column)
      sorted == SortSeq(column, FLess)
      median == IF n % 2 = 1 THEN sorted[(n + 1) \div 2]
                ELSE FDiv(FAdd(sorted[n \div 2], sorted[n \div 2 + 1]), <<2, 1>>)
      sum[k \in 0..n] == IF k = 0 THEN <<0, 1>> ELSE FAdd(sum[k - 1], column[k])
      mean == FDiv(sum[n], <<n, 1>>)
      sq[k \in 0..n] ==
        IF k = 0 THEN <<0, 1>>
        ELSE FAdd(sq[k - 1], FMul(FSub(column[k], mean), FSub(column[k], mean)))
  IN [median |-> median, mean |-> mean, var |-> FDiv(sq[n], <<n, 1>>)]

\* SimpleImputer(strategy='most_frequent').fit and OneHotEncoder.fit on one column.
FitCategorical(column) ==
  LET count(c) == Cardinality({k \in 1..Len(column) : column[k] = c})
      seen(c) == count(c) > 0
      categories == SelectSeq(SortedStrings, seen)
      most(c) == \A k \in 1..Len(column) : count(column[k]) <= count(c)
  IN [most_frequent |-> Head(SelectSeq(categories, most)), categories |-> categories]

\* CreditPreprocessor.fit: the fitted pipeline.
CreditPreprocessorFit(frames) ==
  LET X_fe_rows == [k \in 1..Len(frames) |-> FeatureEngineerTransform(frames[k]).frame]
  IN [fitted |-> TRUE,
      num |-> [j \in 1..Len(num_features) |->
                 FitNumeric([k \in 1..Len(frames) |-> X_fe_rows[k][num_features[j]]])],
      cat |-> [j \in 1..Len(cat_features) |->
                 FitCategorical([k \in 1..Len(frames) |-> X_fe_rows[k][cat_features[j]]])]]

OneHotEncoderTransformUnknownAsFirst(categories, value) ==
  [k \in 1..Len(categories) |->
     IF categories[k] = value \/ (k = 1 /\ \A i \in 1..Len(categories) : categories[i] # value)
     THEN 1 ELSE 0]

\* OneHotEncoder(handle_unknown='ignore').transform on one value: the
\* indicator of its category, all zeros for a value not among the categories.
OneHotEncoderTransform(categories, value) ==
  [k \in 1..Len(categories) |-> IF categories[k] = value THEN 1 ELSE 0]

\* CreditPreprocessor.transform on one row.  Without a fitted pipeline
\* self.pipeline.transform raises (AttributeError); an infinite value makes
\* the imputer's input check raise (ValueError).
CreditPreprocessorTransform(fitted, frame) ==
  LET row == FeatureEngineerTransform(frame).frame
      value(j) == row[num_features[j]]
      imputed(j) == IF value(j) = NaN THEN fitted.num[j].median ELSE value(j)
      scaled(j) ==
        [centered |-> FSub(imputed(j), fitted.num[j].mean),
         var |-> IF fitted.num[j].var = <<0, 1>> THEN <<1, 1>> ELSE fitted.num[j].var]
      category(j) ==
        IF row[cat_features[j]] = MissingCategory THEN fitted.cat[j].most_frequent
        ELSE row[cat_features[j]]
      encoded(j) == OneHotEncoderTransform(fitted.cat[j].categories, category(j))
  IN IF ~fitted.fitted THEN [raises |-> TRUE, num |-> <<>>, cat |-> <<>>]
     ELSE IF \E j \in 1..Len(num_features) : value(j) # NaN /\ ~IsFinite(value(j))
     THEN [raises |-> TRUE, num |-> <<>>, cat |-> <<>>]
     ELSE [raises |-> FALSE,
           num |-> [j \in 1..Len(num_features) |-> scaled(j)],
           cat |-> [j \in 1..Len(cat_features) |-> encoded(j)]]

get_feature_names_categorical_first(fitted) ==
  IF ~fitted.fitted THEN <<>>
  ELSE LET cat_names[j \in 0..Len(cat_features)] ==
             IF j = 0 THEN <<>>
             ELSE cat_names[j - 1] \o
                  [k \in 1..Len(fitted.cat[j].categories) |->
                     cat_features[j] \o "_" \o fitted.cat[j].categories[k]]
       IN cat_names[Len(cat_features)] \o num_features

\* CreditPreprocessor.get_feature_names: [] without a pipeline, else the
\* numeric names followed by the encoder's names, "<feature>_<category>".
get_feature_names(fitted) ==
  IF ~fitted.fitted THEN <<>>
  ELSE LET cat_names[j \in 0..Len(cat_features)] ==
             IF j = 0 THEN <<>>
             ELSE cat_names[j - 1] \o
                  [k \in 1..Len(fitted.cat[j].categories) |->
                     cat_features[j] \o "_" \o fitted.cat[j].categories[k]]
       IN num_features \o cat_names[Len(cat_features)]

PipelineAfterTransformUpdatingMean(fitted, frame) ==
  IF fitted.fitted THEN [fitted EXCEPT !.num[1].mean = frame.age] ELSE fitted

\* CreditPreprocessor.transform assigns nothing to self.
PipelineAfterTransform(fitted, frame) == fitted

\* The frames a preprocessor is fitted on: whole sample_data and parts of it
\* (a single row makes every variance zero).
TrainingFrames ==
  { sample_data, SubSeq(sample_data, 1, 2), SubSeq(sample_data, 2, 3), SubSeq(sample_data, 3, 3) }

\* The applications transformed: a row of sample_data, one with
\* categories no training row has, one whose ratios are NaN (zero income,
\* zero loan, no debt) and whose gender is missing, one with a zero loan
\* term (an infinite ratio).
Applications ==
  << sample_data[1],
     [sample_data[3] EXCEPT !.education = "S3", !.housing_type = "PARENTS",
                            !.employment_status = "SELF_EMPLOYED", !.age = <<55, 1>>],
     [sample_data[2] EXCEPT !.annual_income = <<0, 1>>, !.loan_amount = <<0, 1>>,
                            !.gender = MissingCategory],
     [sample_data[1] EXCEPT !.loan_term_months = <<0, 1>>] >>

NotTransformed == [times |-> 0, out |-> [raises |-> FALSE, num |-> <<>>, cat |-> <<>>]]

InitMlIdle ==
  /\ X = sample_data[1]
  /\ X_fe = NoFrame
  /\ pipeline = NoPipeline
  /\ outputs = [a \in 1..Len(Applications) |-> NotTransformed]
  /\ feature_names = [times |-> 0, names |-> <<>>]

(***************************************************************************)
(* SHAPExplainer (src/app/services/explain_service.py) on the classifier   *)
(* the service loads, an XGBClassifier with objective binary:logistic.     *)
(* shap.TreeExplainer(model), built without background data and without a  *)
(* model_output argument, explains the raw output of the trees, the        *)
(* log-odds margin: expected_value plus the SHAP values of an instance is   *)
(* its margin, and predict_proba is the logistic function of the margin.   *)
(* A margin is an integer m standing for m / 100000.                       *)
(***************************************************************************)

\* model.predict_proba(X)[0, 1] for an instance of the given margin: the
\* logistic function, tabulated on the margins the model draws (multiples of
\* 0.5) and rounded to 5 decimals.
predict_proba(margin) ==
  LET upper == <<50000, 62246, 73106, 81757, 88080, 92414, 95257, 97069, 98201, 98901, 99331,
                 99593, 99753>>
      k == margin \div 50000
  IN IF k >= 0 THEN upper[k + 1] ELSE 100000 - upper[1 - k]

\* No call of explain_prediction yet.
NotExplained ==
  [prediction_probability |-> 0, base_value |-> 0, shap_values |-> <<>>,
   top_features |-> <<>>, explanation |-> [kind |-> "absent", risk_level |-> "", text |-> ""],
   risk_category |-> ""]

\* A plausible slip: the ranking left in feature order.
SHAPExplainerExplainPredictionUnsorted(expected_value, shap_values, X_instance, names, top_k) ==
  LET n == Len(shap_values)
      abs(v) == IF v < 0 THEN -v ELSE v
      sum[i \in 0..n] == IF i = 0 THEN 0 ELSE sum[i - 1] + shap_values[i]
      prediction_proba == predict_proba(expected_value + sum[n])
      feature_impacts ==
        [i \in 1..n |->
           [feature |-> IF names # <<>> THEN names[i]
                        ELSE "feature_" \o ToString(i - 1),
            shap_value |-> shap_values[i],
            feature_value |-> X_instance[i],
            impact |-> IF shap_values[i] > 0 THEN "increases_risk" ELSE "decreases_risk"]]
      order == [i \in 1..n |-> i]
      sorted == [r \in 1..n |-> feature_impacts[order[r]]]
  IN [prediction_probability |-> prediction_proba,
      base_value |-> expected_value,
      shap_values |-> shap_values,
      top_features |-> SubSeq(sorted, 1, IF top_k < n THEN top_k ELSE n),
      explanation |-> _generate_explanation_text(prediction_proba,
                        SubSeq(sorted, 1, IF top_k < n THEN top_k ELSE n)),
      risk_category |-> _get_risk_category(prediction_proba)]

\* SHAPExplainer.explain_prediction(X_instance, feature_names=names, top_k),
\* the explainer giving expected_value and shap_values for the instance.
SHAPExplainerExplainPrediction(expected_value, shap_values, X_instance, names, top_k) ==
  LET n == Len(shap_values)
      abs(v) == IF v < 0 THEN -v ELSE v
      sum[i \in 0..n] == IF i = 0 THEN 0 ELSE sum[i - 1] + shap_values[i]
      prediction_proba == predict_proba(expected_value + sum[n])
      feature_impacts ==
        [i \in 1..n |->
           [feature |-> IF names # <<>> THEN names[i]
                        ELSE "feature_" \o ToString(i - 1),
            shap_value |-> shap_values[i],
            feature_value |-> X_instance[i],
            impact |-> IF shap_values[i] > 0 THEN "increases_risk" ELSE "decreases_risk"]]
      before(i, j) ==
        \/ abs(shap_values[i]) > abs(shap_values[j])
        \/ abs(shap_values[i]) = abs(shap_values[j]) /\ i < j
      order == SortSeq([i \in 1..n |-> i], before)
      sorted == [r \in 1..n |-> feature_impacts[order[r]]]
  IN [prediction_probability |-> prediction_proba,
      base_value |-> expected_value,
      shap_values |-> shap_values,
      top_features |-> SubSeq(sorted, 1, IF top_k < n THEN top_k ELSE n),
      explanation |-> _generate_explanation_text(prediction_proba,
                        SubSeq(sorted, 1, IF top_k < n THEN top_k ELSE n)),
      risk_category |-> _get_risk_category(prediction_proba)]

\* What explain_prediction is called on: the explainer's expected_value and
\* SHAP values for the instance, the instance, the names and top_k.
Instances ==
  { [expected_value |-> b, shap_values |-> v, X_instance |-> [i \in 1..NumFeatures |-> i],
     feature_names |-> names, top_k |-> k] :
      b \in {-100000, 0},
      v \in [1..NumFeatures -> {-100000, -50000, 0, 50000, 100000}],
      names \in {<<>>, [i \in 1..NumFeatures |-> num_features[i]]},
      k \in {2, 5} }

\* The state of model_service.py after import: _model_service = None, and no
\* request has come.
InitLoadIdle ==
  /\ _model_service = 0
  /\ constructions = 0
  /\ thread = [t \in 1..NumThreads |-> [pc |-> "call", made |-> 0, returned |-> 0]]

\* No call of _mask_pii yet.
InitMaskIdle ==
  /\ raw_features = SampleApplication
  /\ masked_features = <<>>

InitExplainIdle ==
  /\ instance = [expected_value |-> 0, shap_values |-> <<>>, X_instance |-> <<>>,
                 feature_names |-> <<>>, top_k |-> 5]
  /\ explained = NotExplained

Workers == 1..NumWorkers

NoJob == [kind |-> "none", entry |-> NoEntry]
NotRead == [raises |-> FALSE, rows |-> <<>>]

InitConcIdle ==
  /\ pc = [w \in Workers |-> "idle"]
  /\ job = [w \in Workers |-> NoJob]
  /\ observed = [w \in Workers |-> NotRead]

Init ==
  /\ InitScore /\ InitRiskIdle /\ InitConcIdle /\ InitMlIdle /\ InitExplainIdle /\ InitMaskIdle
  /\ InitLoadIdle

Next ==
  \/ PredictCreditScore

Spec == Init /\ [][Next]_vars

(***************************************************************************)
(* The risk categorisers on their own.                                     *)
(***************************************************************************)

\* Probabilities in [0, 1]: a grid of thousandths and the neighbours of the
\* tier bounds and of the default threshold.
RiskProbs ==
  {k * 1000 : k \in 0..100}
    \cup {19999, 20001, 39999, 40001, 49999, 50001, 59999, 60001, 79990, 79999, 80001, 99999}

\* model_service.predict: risk_category = self._categorize_risk(prediction_proba)
CategorizeRisk ==
  /\ tiers' = [tiers EXCEPT !.model_service = _categorize_risk(probability)]
  /\ UNCHANGED <<probability, besidesRisk>>

\* explain_prediction: 'risk_category': self._get_risk_category(prediction_proba)
GetRiskCategory ==
  /\ tiers' = [tiers EXCEPT !.explainer = _get_risk_category(probability)]
  /\ UNCHANGED <<probability, besidesRisk>>

InitRisk ==
  /\ probability \in RiskProbs
  /\ tiers = [model_service |-> "", explainer |-> ""]
  /\ settings \in {s \in SettingsValues : s.default_risk_threshold = DefaultRiskThreshold}
  /\ audit_log = AbsentFile
  /\ export_file = AbsentFile
  /\ query_result = <<>>
  /\ now = 0
  /\ recorded = 0
  /\ call = NoCall
  /\ response = NoResponse
  /\ InitConcIdle
  /\ InitMlIdle
  /\ InitExplainIdle
  /\ InitMaskIdle
  /\ InitLoadIdle

NextRisk ==
  \/ CategorizeRisk
  \/ GetRiskCategory

SpecRisk == InitRisk /\ [][NextRisk]_vars

(***************************************************************************)
(* The AuditLogger called directly, one call after the other.              *)
(***************************************************************************)

\* A plausible slip: the first n rows.
PyHead(df, n) == IF n >= Len(df) THEN df ELSE SubSeq(df, 1, n)

\* The last min(n, Len(df)) rows: DataFrame.tail(n) for n >= 0.
PyTail(df, n) == IF n >= Len(df) THEN df ELSE SubSeq(df, Len(df) - n + 1, Len(df))

\* An optional date filter, a text: a timestamp in the format of the log.
\* <<>> stands for the filters that `if start_date:` takes as
\* not given, None and the empty text.
DateInputs ==
  {<<>>, isoformat(0), isoformat(1)}

\* AuditLogger.get_logs, for a file that exists and is not empty.
get_logs(file, start_date, end_date, limit) ==
  LET df == read_csv(file).rows
      from_start == IF start_date # <<>>
                    THEN SelectSeq(df, LAMBDA r : StrLe(start_date, r.entry.timestamp))
                    ELSE df
      to_end == IF end_date # <<>>
                THEN SelectSeq(from_start, LAMBDA r : StrLe(r.entry.timestamp, end_date))
                ELSE from_start
  IN PyTail(to_end, limit)

\* The blocks of a sequence of rows.
RECURSIVE BlocksOf(_)
BlocksOf(rows) ==
  IF rows = <<>> THEN <<>>
  ELSE (IF Head(rows).complete THEN RowBlocks(Head(rows).entry)
        ELSE << [kind |-> "row", entry |-> Head(rows).entry, part |-> 2] >>)
       \o BlocksOf(Tail(rows))

\* df.to_csv(output_path, index=False): header and rows, to a new file.
to_csv(rows) == [exists |-> TRUE, data |-> HeaderBlocks \o BlocksOf(rows)]

\* The features of the self-test call at the end of audit_service.py.
SelfTestFeatures ==
  [application_id |-> "APP-12345", age |-> 30, annual_income |-> 120, loan_amount |-> 50]

\* Arguments of direct log_prediction calls.
LogCalls ==
  {[request_id |-> None, features |-> SelfTestFeatures, prediction_score |-> 25000,
    risk_category |-> "LOW",
    explanation |-> [explain_prediction(25000) EXCEPT !.explanation.text =
                       "Low risk due to stable income and good credit history"],
    user_id |-> "test_user"],
   [request_id |-> "req-1", features |-> [SampleApplication EXCEPT !.annual_income = 118],
    prediction_score |-> 55000,
    risk_category |-> "MEDIUM", explanation |-> ErrorExplanation, user_id |-> None],
   [request_id |-> "req-2", features |-> [SampleApplication EXCEPT !.application_id = "28"],
    prediction_score |-> 50004,
    risk_category |-> "MEDIUM", explanation |-> explain_prediction(50004), user_id |-> ""]}

OpCall(op) == [NoCall EXCEPT !.op = op]

\* hashlib.sha256(...).hexdigest()[:16] of json.dumps(masked_features,
\* sort_keys=True) for the feature dicts of LogCalls, as SHA-256 gives them,
\* digit by digit; <<>> for a digest not tabulated.
hexdigest(hash) ==
  IF hash = _hash_value(_mask_pii(SelfTestFeatures))
  THEN <<"b", "f", "b", "1", "d", "f", "9", "e", "7", "7", "a", "f", "8", "9", "d", "3">>
  ELSE IF hash = _hash_value(_mask_pii(SampleApplication))
  THEN <<"9", "e", "8", "c", "9", "d", "5", "f", "b", "b", "6", "6", "e", "a", "0", "2">>
  ELSE IF hash = _hash_value(_mask_pii([SampleApplication EXCEPT !.application_id = "28"]))
  THEN <<"e", "f", "0", "3", "3", "4", "4", "3", "3", "e", "f", "0", "4", "5", "2", "8">>
  ELSE <<>>

\* The characters of the application ids of LogCalls.
Characters(application_id) ==
  IF application_id = "28" THEN <<"2", "8">>
  ELSE IF application_id = "APP-001" THEN <<"A", "P", "P", "-", "0", "0", "1">>
  ELSE IF application_id = "APP-12345" THEN <<"A", "P", "P", "-", "1", "2", "3", "4", "5">>
  ELSE <<>>

\* AuditLogger(log_path)
NewAuditLogger ==
  /\ audit_log' = AuditLoggerNew(audit_log)
  /\ call' = OpCall("AuditLogger")
  /\ UNCHANGED <<settings, export_file, query_result, now, recorded, response, besidesScore>>

\* logger.log_prediction(...), on a logger constructed before (its file exists).
LogPrediction ==
  /\ audit_log.exists
  /\ recorded < MaxRecorded
  /\ \E c \in LogCalls :
       LET entry == LogEntry(c.request_id, c.features, c.prediction_score, c.risk_category,
                             c.explanation, c.user_id, isoformat(now), uuid4(UsedIds(audit_log)))
       IN /\ audit_log' = AppendRow(audit_log, entry)
          /\ call' = [args |-> c] @@ [OpCall("log_prediction") EXCEPT !.request_id = c.request_id]
  /\ recorded' = recorded + 1
  /\ UNCHANGED <<settings, export_file, query_result, now, response, besidesScore>>

\* logger.get_logs(start_date, end_date, limit)
GetLogs ==
  /\ audit_log.exists
  /\ \E start_date \in DateInputs, end_date \in DateInputs, limit \in 1..(MaxRecorded + 1) :
       /\ query_result' = get_logs(audit_log, start_date, end_date, limit)
       /\ call' = [args |-> [start_date |-> start_date, end_date |-> end_date, limit |-> limit]]
                    @@ OpCall("get_logs")
  /\ UNCHANGED <<settings, audit_log, export_file, now, recorded, response, besidesScore>>

\* logger.export_logs(output_path), output_path another file than the log.
ExportLogs ==
  /\ audit_log.exists
  /\ export_file' = to_csv(read_csv(audit_log).rows)
  /\ call' = OpCall("export_logs")
  /\ UNCHANGED <<settings, audit_log, query_result, now, recorded, response, besidesScore>>

\* AuditLogger.export_logs: FileNotFoundError when the log file is not
\* there, else the whole log read and written to output_path.
export_logs(file, output) ==
  IF ~file.exists THEN [raises |-> TRUE, output |-> output]
  ELSE [raises |-> FALSE, output |-> to_csv(read_csv(file).rows)]

\* GET /audit-log/export: AuditLogger(settings.audit_log_path), then
\* audit_logger.export_logs(export_path).
ExportAuditLogs ==
  /\ LET logger_file == AuditLoggerNew(audit_log)
         exported == export_logs(logger_file, export_file)
     IN /\ audit_log' = logger_file
        /\ export_file' = exported.output
        /\ call' = [OpCall("export_audit_logs") EXCEPT !.raised = exported.raises]
  /\ UNCHANGED <<settings, query_result, now, recorded, response, besidesScore>>

InitAudit ==
  /\ settings = [default_risk_threshold |-> DefaultRiskThreshold,
                 enable_explainability |-> TRUE, enable_audit_logging |-> TRUE]
  /\ audit_log \in StartLogs
  /\ export_file = AbsentFile
  /\ query_result = <<>>
  /\ now = 0
  /\ recorded = 0
  /\ call = NoCall
  /\ response = NoResponse
  /\ InitRiskIdle
  /\ InitConcIdle
  /\ InitMlIdle
  /\ InitExplainIdle
  /\ InitMaskIdle
  /\ InitLoadIdle

NextAudit ==
  \/ NewAuditLogger
  \/ LogPrediction
  \/ GetLogs
  \/ ExportLogs
  \/ ExportAuditLogs
  \/ Tick

SpecAudit == InitAudit /\ [][NextAudit]_vars

(***************************************************************************)
(* Requests served at the same time by several worker processes           *)
(* (uvicorn workers), which share the audit log file and nothing else.     *)
(* A step is one system call on the file: the existence test, the open     *)
(* that creates or truncates, the write of the buffered text when the      *)
(* handle is closed, the read.                                             *)
(***************************************************************************)

\* data with blocks written over it from the start of the file.
WriteAtStart(data, blocks) ==
  blocks \o (IF Len(data) > Len(blocks) THEN SubSeq(data, Len(blocks) + 1, Len(data)) ELSE <<>>)

\* Requests begun so far.
Started == recorded + Cardinality({v \in Workers : job[v].kind = "score"})

\* After AuditLogger.__init__ the handler goes on: log_prediction builds its
\* entry, get_logs reads.
AfterInit(kind) == IF kind = "score" THEN "append" ELSE "read"

\* POST /predict arrives: the prediction is made (no shared state) and the
\* audit block entered.  AuditLogger.__init__: if not self.log_path.exists().
\* When the file is there, log_prediction builds the log entry:
\* 'timestamp': datetime.now().isoformat()
StartScore(w) ==
  /\ pc[w] = "idle"
  /\ Started < MaxScoring
  /\ \E c \in {x \in LogCalls : x.request_id = None} :
       job' = [job EXCEPT ![w] = [kind |-> "score",
                 entry |-> LogEntry(c.request_id, c.features, c.prediction_score,
                             c.risk_category, c.explanation, c.user_id, isoformat(now),
                             Uuid(Started + 1))]]
  /\ pc' = [pc EXCEPT ![w] = IF audit_log.exists THEN AfterInit("score") ELSE "init_open"]
  /\ UNCHANGED <<varsScore, observed, besidesConc>>

\* GET /audit-log arrives.  AuditLogger.__init__: if not self.log_path.exists()
StartQuery(w) ==
  /\ pc[w] = "idle"
  /\ Cardinality({v \in Workers : observed[v] # NotRead \/ job[v].kind = "query"}) < MaxQueries
  /\ job' = [job EXCEPT ![w] = [kind |-> "query", entry |-> NoEntry]]
  /\ pc' = [pc EXCEPT ![w] = IF audit_log.exists THEN AfterInit("query") ELSE "init_open"]
  /\ UNCHANGED <<varsScore, observed, besidesConc>>

\* _initialize_log_file, df.to_csv(self.log_path): the file is opened for
\* writing, which creates it or truncates it.
InitOpen(w) ==
  /\ pc[w] = "init_open"
  /\ audit_log' = [exists |-> TRUE, data |-> <<>>]
  /\ pc' = [pc EXCEPT ![w] = "init_write"]
  /\ UNCHANGED <<settings, export_file, query_result, now, recorded, call, response,
                 job, observed, besidesConc>>

\* _initialize_log_file, df.to_csv(self.log_path): the header line is written
\* at the start of the file and the handle closed.  log_prediction then builds
\* the log entry: 'timestamp': datetime.now().isoformat()
InitWrite(w) ==
  /\ pc[w] = "init_write"
  /\ audit_log' = [exists |-> TRUE, data |-> WriteAtStart(audit_log.data, HeaderBlocks)]
  /\ pc' = [pc EXCEPT ![w] = AfterInit(job[w].kind)]
  /\ job' = [job EXCEPT ![w].entry.timestamp = IF job[w].kind = "score" THEN isoformat(now) ELSE @]
  /\ UNCHANGED <<settings, export_file, query_result, now, recorded, call, response,
                 observed, besidesConc>>

\* log_prediction: df.to_csv(self.log_path, mode='a', ...): the row goes to
\* the end of the file in one write.
AppendLogEntry(w) ==
  /\ pc[w] = "append"
  /\ audit_log' = AppendRow(audit_log, job[w].entry)
  /\ recorded' = recorded + 1
  /\ pc' = [pc EXCEPT ![w] = "idle"]
  /\ job' = [job EXCEPT ![w] = NoJob]
  /\ UNCHANGED <<settings, export_file, query_result, now, call, response, observed, besidesConc>>

\* get_logs: df = pd.read_csv(self.log_path)
ReadLog(w) ==
  /\ pc[w] = "read"
  /\ observed' = [observed EXCEPT ![w] = read_csv(audit_log)]
  /\ pc' = [pc EXCEPT ![w] = "idle"]
  /\ job' = [job EXCEPT ![w] = NoJob]
  /\ UNCHANGED <<varsScore, besidesConc>>

\* Time passes.
TickConc ==
  /\ now < MaxClock
  /\ now' = now + 1
  /\ UNCHANGED <<settings, audit_log, export_file, query_result, recorded, call, response,
                 varsConc, besidesConc>>

InitConc ==
  /\ settings = [default_risk_threshold |-> DefaultRiskThreshold,
                 enable_explainability |-> TRUE, enable_audit_logging |-> TRUE]
  /\ audit_log \in StartLogs
  /\ export_file = AbsentFile
  /\ query_result = <<>>
  /\ now = 0
  /\ recorded = 0
  /\ call = NoCall
  /\ response = NoResponse
  /\ InitRiskIdle
  /\ InitConcIdle
  /\ InitMlIdle
  /\ InitExplainIdle
  /\ InitMaskIdle
  /\ InitLoadIdle

NextConc ==
  \/ \E w \in Workers :
       \/ StartScore(w)
       \/ StartQuery(w)
       \/ InitOpen(w)
       \/ InitWrite(w)
       \/ AppendLogEntry(w)
       \/ ReadLog(w)
  \/ TickConc

SpecConc == InitConc /\ [][NextConc]_vars

(***************************************************************************)
(* The ratio computation called on a frame.                                *)
(***************************************************************************)

\* The service at rest while the preprocessing code is exercised alone.
InitServiceIdle ==
  /\ settings = [default_risk_threshold |-> DefaultRiskThreshold,
                 enable_explainability |-> TRUE, enable_audit_logging |-> TRUE]
  /\ audit_log = AbsentFile
  /\ export_file = AbsentFile
  /\ query_result = <<>>
  /\ now = 0
  /\ recorded = 0
  /\ call = NoCall
  /\ response = NoResponse
  /\ InitRiskIdle
  /\ InitConcIdle

\* X_fe = FeatureEngineer().transform(X); transform works on X.copy().
TransformFrame ==
  /\ X_fe' = FeatureEngineerTransform(X)
  /\ UNCHANGED <<X, pipeline, outputs, feature_names, varsScore, besidesMl>>

InitFE ==
  /\ X \in FrameInputs
  /\ X_fe = NoFrame
  /\ pipeline = NoPipeline
  /\ outputs = [a \in 1..Len(Applications) |-> NotTransformed]
  /\ feature_names = [times |-> 0, names |-> <<>>]
  /\ InitServiceIdle
  /\ InitExplainIdle
  /\ InitMaskIdle
  /\ InitLoadIdle

NextFE ==
  \/ TransformFrame

SpecFE == InitFE /\ [][NextFE]_vars

(***************************************************************************)
(* A CreditPreprocessor fitted and used to transform applications.         *)
(***************************************************************************)

\* preprocessor.fit(frames)
Fit ==
  /\ \E frames \in TrainingFrames : pipeline' = CreditPreprocessorFit(frames)
  /\ outputs' = [a \in 1..Len(Applications) |-> NotTransformed]
  /\ feature_names' = [times |-> 0, names |-> <<>>]
  /\ call' = [NoCall EXCEPT !.op = "fit"]
  /\ UNCHANGED <<X, X_fe, settings, audit_log, export_file, query_result, now, recorded,
                 response, besidesMl>>

\* preprocessor.transform(application)
Transform ==
  /\ \E a \in 1..Len(Applications) :
       /\ outputs[a].times < MaxTransforms
       /\ outputs' = [outputs EXCEPT ![a] =
            [times |-> @.times + 1, out |-> CreditPreprocessorTransform(pipeline, Applications[a])]]
       /\ pipeline' = PipelineAfterTransform(pipeline, Applications[a])
  /\ call' = [NoCall EXCEPT !.op = "transform"]
  /\ UNCHANGED <<X, X_fe, feature_names, settings, audit_log, export_file, query_result, now, recorded,
                 response, besidesMl>>

\* preprocessor.get_feature_names()
GetFeatureNames ==
  /\ feature_names.times < MaxTransforms
  /\ feature_names' = [times |-> feature_names.times + 1, names |-> get_feature_names(pipeline)]
  /\ call' = [NoCall EXCEPT !.op = "get_feature_names"]
  /\ UNCHANGED <<X, X_fe, pipeline, outputs, settings, audit_log, export_file, query_result,
                 now, recorded, response, besidesMl>>

InitPrep == InitMlIdle /\ InitServiceIdle /\ InitExplainIdle /\ InitMaskIdle /\ InitLoadIdle

NextPrep ==
  \/ Fit
  \/ Transform
  \/ GetFeatureNames

SpecPrep == InitPrep /\ [][NextPrep]_vars

(***************************************************************************)
(* An explanation asked of a SHAPExplainer.                                *)
(***************************************************************************)

\* explainer.explain_prediction(X_instance, feature_names, top_k)
ExplainPrediction ==
  /\ explained' = SHAPExplainerExplainPrediction(instance.expected_value, instance.shap_values,
                    instance.X_instance, instance.feature_names, instance.top_k)
  /\ UNCHANGED <<instance, besidesExplain>>

InitExplain ==
  /\ instance \in Instances
  /\ explained = NotExplained
  /\ InitServiceIdle
  /\ InitMlIdle
  /\ InitMaskIdle
  /\ InitLoadIdle

NextExplain ==
  \/ ExplainPrediction

SpecExplain == InitExplain /\ [][NextExplain]_vars

(***************************************************************************)
(* AuditLogger._mask_pii called on a feature dict.                         *)
(***************************************************************************)

\* Feature dicts: the schema's example with its monetary fields taken from
\* values around the bucket boundaries (5, 15 and 25 are ties) and two
\* negative ones, which _mask_pii accepts.
MaskInputs ==
  { [SampleApplication EXCEPT !.annual_income = i, !.loan_amount = l,
                              !.total_existing_debt = d] :
      i \in {4, 5, 6, 14, 15, 16, 120}, l \in {0, 5, 25, 26, 50}, d \in {-15, -4, 0, 9, 35} }

\* masked = self._mask_pii(features)
MaskPii ==
  /\ masked_features' = _mask_pii(raw_features)
  /\ UNCHANGED <<raw_features, varsScore, varsRisk, varsConc, varsMl, varsExplain, varsLoad>>

InitMask ==
  /\ raw_features \in MaskInputs
  /\ masked_features = <<>>
  /\ InitServiceIdle
  /\ InitMlIdle
  /\ InitExplainIdle
  /\ InitLoadIdle

NextMask ==
  \/ MaskPii

SpecMask == InitMask /\ [][NextMask]_vars

(***************************************************************************)
(* get_model_service, the dependency of POST /predict.  It is a plain      *)
(* function, which the framework runs in a worker thread of its pool, one  *)
(* thread per request: the threads share the module global.  A step is one *)
(* access to the global or the construction of a ModelService (the         *)
(* artifacts are on disk and load).                                        *)
(***************************************************************************)

\* if _model_service is None:
TestGlobal(t) ==
  /\ thread[t].pc = "call"
  /\ thread' = [thread EXCEPT ![t].pc = IF _model_service = 0 THEN "construct" ELSE "return"]
  /\ UNCHANGED <<_model_service, constructions, varsScore, varsRisk, varsConc, varsMl, varsExplain, varsMask>>

\* ModelService(): __init__ runs _load_artifacts.
ConstructModelService(t) ==
  /\ thread[t].pc = "construct"
  /\ constructions' = constructions + 1
  /\ thread' = [thread EXCEPT ![t].pc = "assign", ![t].made = constructions + 1]
  /\ UNCHANGED <<_model_service, varsScore, varsRisk, varsConc, varsMl, varsExplain, varsMask>>

\* _model_service = <the object constructed>
AssignGlobal(t) ==
  /\ thread[t].pc = "assign"
  /\ _model_service' = thread[t].made
  /\ thread' = [thread EXCEPT ![t].pc = "return"]
  /\ UNCHANGED <<constructions, varsScore, varsRisk, varsConc, varsMl, varsExplain, varsMask>>

\* return _model_service
ReturnGlobal(t) ==
  /\ thread[t].pc = "return"
  /\ thread' = [thread EXCEPT ![t].pc = "done", ![t].returned = _model_service]
  /\ UNCHANGED <<_model_service, constructions, varsScore, varsRisk, varsConc, varsMl, varsExplain, varsMask>>

InitLoad ==
  /\ InitLoadIdle
  /\ InitServiceIdle
  /\ InitMlIdle
  /\ InitExplainIdle
  /\ InitMaskIdle

NextLoad ==
  \/ \E t \in 1..NumThreads :
       \/ TestGlobal(t)
       \/ ConstructModelService(t)
       \/ AssignGlobal(t)
       \/ ReturnGlobal(t)

SpecLoad == InitLoad /\ [][NextLoad]_vars

(***************************************************************************)
(* C1 - C2, C5 - C7.                                                       *)
(***************************************************************************)

Tiers == {"VERY_LOW", "LOW", "MEDIUM", "HIGH", "VERY_HIGH"}

\* The range of probabilities each tier stands for.
InTier(t, p) ==
  CASE t = "VERY_LOW" -> p < 20000
    [] t = "LOW" -> 20000 <= p /\ p < 40000
    [] t = "MEDIUM" -> 40000 <= p /\ p < 60000
    [] t = "HIGH" -> 60000 <= p /\ p < 80000
    [] t = "VERY_HIGH" -> p >= 80000

\* C1: for every probability in [0,1] exactly one tier's range holds it, and
\* both ModelService._categorize_risk and SHAPExplainer._get_risk_category
\* return that tier (boundaries 0.2, 0.4, 0.6, 0.8 belong to the upper tier),
\* hence the same tier.
C1_RiskPartition ==
  /\ tiers.model_service # "" => {t \in Tiers : InTier(t, probability)} = {tiers.model_service}
  /\ tiers.explainer # "" => {t \in Tiers : InTier(t, probability)} = {tiers.explainer}
  /\ (tiers.model_service # "" /\ tiers.explainer # "") => tiers.model_service = tiers.explainer
  /\ (probability = 20000 /\ tiers.model_service # "") => tiers.model_service = "LOW"
  /\ (probability = 40000 /\ tiers.model_service # "") => tiers.model_service = "MEDIUM"
  /\ (probability = 80000 /\ tiers.model_service # "") => tiers.model_service = "VERY_HIGH"

\* Both categorisers have run on the boundary 0.2.
C1_Witness ==
  /\ probability = 20000
  /\ tiers.model_service = "LOW"
  /\ tiers.explainer = "LOW"

\* C2: a scoring call that returns a prediction returns REJECT exactly when
\* the probability is strictly greater than the configured threshold, and
\* APPROVE otherwise; with the default threshold 0.5 and 0.25 give APPROVE
\* and 0.55 gives REJECT.
C2_Decision ==
  (call.op = "predict_credit_score" /\ response.status = 200) =>
    /\ response.prediction_score = call.oracle.p
    /\ response.decision \in {"REJECT", "APPROVE"}
    /\ response.decision = "REJECT" <=> call.oracle.p > settings.default_risk_threshold
    /\ settings.default_risk_threshold = DefaultRiskThreshold =>
         /\ call.oracle.p = 50000 => response.decision = "APPROVE"
         /\ call.oracle.p = 25000 => response.decision = "APPROVE"
         /\ call.oracle.p = 55000 => response.decision = "REJECT"

\* A probability equal to the configured threshold was approved.
C2_Witness ==
  /\ call.op = "predict_credit_score"
  /\ response.status = 200
  /\ response.prediction_score = settings.default_risk_threshold
  /\ response.decision = "APPROVE"

\* The last call ran the explanation block and the block failed.
ExplanationFailed ==
  /\ call.op = "predict_credit_score"
  /\ ~call.oracle.raises
  /\ settings.enable_explainability
  /\ call.explain # "ok"

\* C5: when explanation generation fails at any of its steps while
\* explainability is enabled, the call still returns, with the score, tier and
\* decision the probability determines, and its explanation is an object with
\* an 'error' key, neither null nor a normal explanation.
C5_ExplanationFailureMarked ==
  ExplanationFailed =>
    /\ response.status = 200
    /\ response.prediction_score = call.oracle.p
    /\ InTier(response.risk_category, call.oracle.p)
    /\ response.decision = "REJECT" <=> call.oracle.p > settings.default_risk_threshold
    /\ response.decision \in {"REJECT", "APPROVE"}
    /\ response.explanation.kind = "error"

\* Explainer construction failed and the call returned a marked explanation.
C5_Witness ==
  /\ ExplanationFailed
  /\ call.explain = "init_raises"
  /\ response.status = 200
  /\ response.explanation.kind = "error"

\* The last call ran the audit block and the block failed.
AuditFailed ==
  /\ call.op = "predict_credit_score"
  /\ ~call.oracle.raises
  /\ settings.enable_audit_logging
  /\ call.audit # "ok"

\* C6: a failure of the audit block (AuditLogger(...) or log_prediction
\* raising) leaves the call successful, with the request id, score, tier,
\* decision and explanation computed before the block.
C6_AuditFailureHarmless ==
  AuditFailed =>
    /\ response.status = 200
    /\ response.request_id \notin {None, ""}
    /\ call.request_id \notin {None, ""} => response.request_id = call.request_id
    /\ response.prediction_score = call.oracle.p
    /\ InTier(response.risk_category, call.oracle.p)
    /\ response.decision = "REJECT" <=> call.oracle.p > settings.default_risk_threshold
    /\ response.explanation = ExplanationBlock(call.oracle.p, call.explain)

\* log_prediction raised and the caller still has its decision.
C6_Witness ==
  /\ AuditFailed
  /\ call.audit = "log_raises"
  /\ response.status = 200
  /\ response.decision = "REJECT"

\* C7: a call whose classifier (or preprocessing) raises ends with a failure
\* signal, returns no score, tier or decision, and appends nothing to the
\* audit log.
C7_FailedPredictionAborts ==
  [][ (call'.op = "predict_credit_score" /\ call'.oracle.raises) =>
        /\ response'.status = 500
        /\ response'.risk_category = ""
        /\ response'.decision = ""
        /\ response'.explanation.kind = "none"
        /\ audit_log' = audit_log ]_vars

\* The classifier raised with audit logging enabled and a log already kept.
C7_Witness ==
  /\ call.op = "predict_credit_score"
  /\ call.oracle.raises
  /\ settings.enable_audit_logging
  /\ response.status = 500
  /\ Len(Rows(audit_log)) = 1

IsPrefix(s, t) == Len(s) <= Len(t) /\ SubSeq(t, 1, Len(s)) = s

\* C3: over any sequence of AuditLogger construction, log_prediction, get_logs
\* and export_logs calls, the rows already in the log stay, unchanged and in
\* order, at the head of the log; a log_prediction call adds exactly one row
\* at the end; construction, get_logs and export_logs add or rewrite none.
C3_AppendOnly ==
  [][ /\ IsPrefix(Rows(audit_log), Rows(audit_log'))
      /\ call'.op = "log_prediction" => Len(Rows(audit_log')) = Len(Rows(audit_log)) + 1
      /\ call'.op \in {"AuditLogger", "get_logs", "export_logs"} =>
           Rows(audit_log') = Rows(audit_log) ]_vars

\* An entry was appended after the one kept from an earlier run, a logger was
\* constructed again and the log exported: the earlier entry is still first.
C3_Witness ==
  /\ call.op = "AuditLogger"
  /\ Len(Rows(audit_log)) = 2
  /\ Rows(audit_log)[1].entry = PriorEntry
  /\ Rows(audit_log)[2].entry.request_id = "req-2"
  /\ export_file.exists
  /\ Len(export_file.data) = 5

\* C4: whatever several requests do to the audit log at the same time, a
\* read of the log returns complete entries only: each entry is wholly there
\* or not at all.
C4_ReadersSeeCompleteEntries ==
  \A w \in Workers : \A i \in 1..Len(observed[w].rows) : observed[w].rows[i].complete

(***************************************************************************)
(* C8 - C9.  The ratio computation, under SpecFE.                          *)
(***************************************************************************)

\* C8: when a denominator is zero (annual_income, loan_amount or
\* loan_term_months), FeatureEngineer.transform fails with an error; it never
\* returns derived ratios holding an infinite or not-a-number value.
C8_ZeroDenominatorFails ==
  X_fe # NoFrame =>
    /\ (<<0, 1>> \in {X.annual_income, X.loan_amount, X.loan_term_months}) => X_fe.raises
    /\ ~X_fe.raises =>
         /\ IsFinite(X_fe.frame.debt_service_ratio)
         /\ IsFinite(X_fe.frame.income_to_loan_ratio)
         /\ IsFinite(X_fe.frame.disposable_income)

\* C9: for a frame with total_existing_debt >= 0 and loan_amount,
\* loan_term_months and annual_income all > 0, the debt_service_ratio that
\* FeatureEngineer.transform returns is >= 0.
C9_DebtServiceRatioNonNegative ==
  ( /\ X_fe # NoFrame
    /\ ~FLess(X.total_existing_debt, <<0, 1>>)
    /\ FLess(<<0, 1>>, X.loan_amount)
    /\ FLess(<<0, 1>>, X.loan_term_months)
    /\ FLess(<<0, 1>>, X.annual_income) ) =>
    /\ ~X_fe.raises
    /\ X_fe.frame.debt_service_ratio # NaN
    /\ ~FLess(X_fe.frame.debt_service_ratio, <<0, 1>>)

\* The first row of sample_data has been transformed: income 120, debt 5,
\* loan 50 over 12 months give the ratio 259/600 (0.4317), a high-risk one.
C9_Witness ==
  /\ X = sample_data[1]
  /\ X_fe # NoFrame
  /\ X_fe.frame.debt_service_ratio = <<259, 600>>
  /\ X_fe.frame.is_high_risk_dsr = 1

(***************************************************************************)
(* C10.  The fitted preprocessor, under SpecPrep.                          *)
(***************************************************************************)

\* C10: a transform call leaves the fitted state of the CreditPreprocessor as
\* it was, and an application transformed before through this fitted state
\* gets an output equal to the earlier one.
C10_TransformRepeatable ==
  [][ call'.op = "transform" =>
        /\ pipeline' = pipeline
        /\ \A a \in 1..Len(Applications) :
             outputs[a].times > 0 => outputs'[a].out = outputs[a].out ]_vars

\* Fitted on sample_data, the preprocessor has transformed its first row
\* twice, and twice the application whose ratios are NaN; both outputs are
\* vectors, the first row's age standardised to (30 - 95/3) / sqrt(350/9).
C10_Witness ==
  /\ pipeline = CreditPreprocessorFit(sample_data)
  /\ outputs[1].times = 2
  /\ ~outputs[1].out.raises
  /\ outputs[1].out.num[1] = [centered |-> <<-5, 3>>, var |-> <<350, 9>>]
  /\ outputs[3].times = 2
  /\ ~outputs[3].out.raises

(***************************************************************************)
(* C11 - C12.  Feature names and unseen categories, under SpecPrep.        *)
(***************************************************************************)

\* The columns of a transform output: the numeric ones, then the indicator
\* columns of each categorical feature.
Columns(out) ==
  LET width[j \in 0..Len(out.cat)] == IF j = 0 THEN 0 ELSE width[j - 1] + Len(out.cat[j])
  IN Len(out.num) + width[Len(out.cat)]

\* C11: on a fitted CreditPreprocessor get_feature_names() has as many
\* entries as every transform output has columns; the 12 numeric names come
\* first in declared order, then the indicator names feature by feature in
\* the order of cat_features, and within a feature in the order of the
\* categories learnt at fit; a later call on the same fitted state returns
\* the same list.
C11_FeatureNamesStable ==
  /\ [](feature_names.times > 0 /\ pipeline.fitted =>
          /\ \A a \in 1..Len(Applications) :
               (outputs[a].times > 0 /\ ~outputs[a].out.raises) =>
                 Columns(outputs[a].out) = Len(feature_names.names)
          /\ SubSeq(feature_names.names, 1, 12) = num_features
          /\ \A j \in 1..Len(cat_features) : \A k \in 1..Len(pipeline.cat[j].categories) :
               \E i \in 13..Len(feature_names.names) :
                 /\ feature_names.names[i] = cat_features[j] \o "_" \o pipeline.cat[j].categories[k]
                 /\ k > 1 => feature_names.names[i - 1] =
                               cat_features[j] \o "_" \o pipeline.cat[j].categories[k - 1]
                 /\ (k = 1 /\ j > 1) => feature_names.names[i - 1] =
                      cat_features[j - 1] \o "_" \o
                      pipeline.cat[j - 1].categories[Len(pipeline.cat[j - 1].categories)]
                 /\ (k = 1 /\ j = 1) => i = 13)
  /\ [][(call'.op = "get_feature_names" /\ feature_names.times > 0) =>
          feature_names'.names = feature_names.names]_vars

\* Fitted on sample_data, the preprocessor has given its feature names twice
\* (12 numeric and 11 indicator names) and transformed the first row.
C11_Witness ==
  /\ pipeline = CreditPreprocessorFit(sample_data)
  /\ feature_names.times = 2
  /\ Len(feature_names.names) = 23
  /\ feature_names.names[13] = "gender_FEMALE"
  /\ outputs[1].times > 0
  /\ Columns(outputs[1].out) = 23

\* C12: on a fitted CreditPreprocessor, transform does not raise for an
\* application whose values are of the declared types and ranges (positive
\* income, loan and term, every categorical a string); a categorical value
\* not seen at fit gives all-zero indicator columns for that feature, as
\* many as the feature has categories, and every other column is what it
\* would be with a seen category in its place.
C12_UnseenCategoryZeros ==
  \A a \in 1..Len(Applications) :
    LET app == Applications[a]
        out == outputs[a].out
        seen(j) == {pipeline.cat[j].categories[k] : k \in 1..Len(pipeline.cat[j].categories)}
    IN ( /\ outputs[a].times > 0
         /\ pipeline.fitted
         /\ FLess(<<0, 1>>, app.annual_income)
         /\ FLess(<<0, 1>>, app.loan_amount)
         /\ FLess(<<0, 1>>, app.loan_term_months)
         /\ \A j \in 1..Len(cat_features) : app[cat_features[j]] # MissingCategory ) =>
         /\ ~out.raises
         /\ \A j \in 1..Len(cat_features) :
              app[cat_features[j]] \notin seen(j) =>
                /\ out.cat[j] = [k \in 1..Len(pipeline.cat[j].categories) |-> 0]
                /\ \A c \in seen(j) :
                     LET other == CreditPreprocessorTransform(pipeline,
                                    [app EXCEPT ![cat_features[j]] = c])
                     IN /\ other.num = out.num
                        /\ \A i \in 1..Len(cat_features) : i # j => other.cat[i] = out.cat[i]

\* Fitted on sample_data (education S1, S2, SMA), the preprocessor has
\* transformed the application with education S3: its education columns are
\* zero, its gender columns mark MALE.
C12_Witness ==
  /\ pipeline = CreditPreprocessorFit(sample_data)
  /\ outputs[2].times > 0
  /\ ~outputs[2].out.raises
  /\ outputs[2].out.cat[3] = <<0, 0, 0>>
  /\ outputs[2].out.cat[1] = <<0, 1>>

(***************************************************************************)
(* C13.  The explanation, under SpecExplain.                               *)
(***************************************************************************)

\* C13: in every explanation, base_value plus the sum of the whole
\* shap_values list equals the reported prediction_probability, within a
\* tolerance of 0.00001.
C13_AttributionSumsToProbability ==
  explained # NotExplained =>
    LET n == Len(explained.shap_values)
        sum[i \in 0..n] == IF i = 0 THEN 0 ELSE sum[i - 1] + explained.shap_values[i]
        diff == explained.base_value + sum[n] - explained.prediction_probability
    IN -1 <= diff /\ diff <= 1

(***************************************************************************)
(* C14.  Masking, under SpecMask.  Money is in units of 1,000,000.         *)
(***************************************************************************)

\* C14: in the dict _mask_pii returns, annual_income, loan_amount and
\* total_existing_debt are integer multiples of 10,000,000 and differ from
\* the raw value by at most 5,000,000 (so no other multiple is nearer).
C14_MoneyRoundedToNearestBucket ==
  masked_features # <<>> =>
    \A field \in partial_mask_fields :
      LET diff == masked_features[field] - raw_features[field]
      IN /\ masked_features[field] % 10 = 0
         /\ -5 <= diff /\ diff <= 5

\* A dict with income 15,000,000 (a tie, rounded to the even 20,000,000),
\* loan 26,000,000 and debt -4,000,000 has been masked.
C14_Witness ==
  /\ raw_features.annual_income = 15
  /\ raw_features.loan_amount = 26
  /\ raw_features.total_existing_debt = -4
  /\ masked_features # <<>>
  /\ masked_features.annual_income = 20
  /\ masked_features.loan_amount = 30
  /\ masked_features.total_existing_debt = 0

(***************************************************************************)
(* C15.  The application id in the audit entry, under SpecAudit.           *)
(***************************************************************************)

\* The entry the last log_prediction call appended.
LastRow == Rows(audit_log)[Len(Rows(audit_log))].entry

C16_RequestIdUnique ==
  \A i, j \in 1..Len(Rows(audit_log)) :
    i # j => Rows(audit_log)[i].entry.request_id # Rows(audit_log)[j].entry.request_id

(***************************************************************************)
(* C17.  get_logs, under SpecAudit.                                        *)
(***************************************************************************)

\* The places in the log of the entries that get_logs(start, end, limit) has
\* to return: those within the bounds given, less all but the last limit.
Wanted(start_date, end_date, limit) ==
  LET log == Rows(audit_log)
      matching == {i \in 1..Len(log) :
                     /\ start_date # <<>> => StrLe(start_date, log[i].entry.timestamp)
                     /\ end_date # <<>> => StrLe(log[i].entry.timestamp, end_date)}
  IN {i \in matching : Cardinality({j \in matching : j > i}) < limit}

\* C17: get_logs(start, end, limit) returns, in log order, exactly the last
\* min(limit, n) of the n entries whose timestamp text lies within the bounds
\* given, both inclusive, compared as texts.
C17_GetLogsReturnsLastMatching ==
  call.op = "get_logs" =>
    LET wanted == Wanted(call.args.start_date, call.args.end_date, call.args.limit)
        place(k) == CHOOSE i \in wanted : Cardinality({j \in wanted : j <= i}) = k
    IN /\ Len(query_result) = Cardinality(wanted)
       /\ Len(query_result) <= call.args.limit
       /\ \A k \in 1..Len(query_result) : query_result[k] = Rows(audit_log)[place(k)]

\* get_logs was called on a log of two entries with a start bound that the
\* first entry lies before, and returned the second entry alone.
C17_Witness ==
  /\ call.op = "get_logs"
  /\ Len(Rows(audit_log)) = 2
  /\ call.args.start_date = isoformat(1)
  /\ call.args.end_date = <<>>
  /\ Rows(audit_log)[1].entry.timestamp = isoformat(0)
  /\ query_result = << Rows(audit_log)[2] >>

(***************************************************************************)
(* C18.  Export, under SpecAudit.                                          *)
(***************************************************************************)

\* C18: an export made when no log file has been written yet fails with the
\* file-not-found error and writes nothing; any other export writes every
\* entry of the log to the destination.
C18_ExportFailsWithoutLog ==
  [][ call'.op = "export_audit_logs" =>
        IF ~audit_log.exists
        THEN call'.raised /\ export_file' = export_file
        ELSE ~call'.raised /\ Rows(export_file') = Rows(audit_log) ]_vars

(***************************************************************************)
(* C19.  One audit entry per scoring call, under Spec.                     *)
(***************************************************************************)

\* C19: a scoring call that returns a response while audit logging is
\* enabled, the append not failing, adds exactly one entry to the log, with
\* the request_id and the risk_category of the response and with its score
\* rounded to 4 decimals (the nearest multiple of 1/10000); a scoring call
\* made while audit logging is disabled leaves the log as it is.
C19_OneEntryPerScoringCall ==
  [][ call'.op = "predict_credit_score" =>
        /\ (settings.enable_audit_logging /\ response'.status = 200 /\ call'.audit = "ok") =>
             /\ Len(Rows(audit_log')) = Len(Rows(audit_log)) + 1
             /\ SubSeq(Rows(audit_log'), 1, Len(Rows(audit_log))) = Rows(audit_log)
             /\ LET added == Rows(audit_log')[Len(Rows(audit_log'))]
                    off == added.entry.prediction_score * 10 - response'.prediction_score
                IN /\ added.complete
                   /\ added.entry.request_id = response'.request_id
                   /\ added.entry.risk_category = response'.risk_category
                   /\ -5 <= off /\ off <= 5
        /\ ~settings.enable_audit_logging => audit_log' = audit_log ]_vars

\* A call scored 0.50006 with audit logging enabled: the response carries
\* 0.50006 and the entry added 0.5001.
C19_Witness ==
  /\ call.op = "predict_credit_score"
  /\ settings.enable_audit_logging
  /\ call.audit = "ok"
  /\ response.status = 200
  /\ response.prediction_score = 50006
  /\ Len(Rows(audit_log)) = 2
  /\ Rows(audit_log)[2].entry.prediction_score = 5001
  /\ Rows(audit_log)[2].entry.request_id = response.request_id

(***************************************************************************)
(* C20.  One ModelService, under SpecLoad.                                 *)
(***************************************************************************)

\* C20: whatever the interleaving of the first requests, ModelService is
\* constructed at most once and all callers of get_model_service receive the
\* same object.
C20_ModelServiceConstructedOnce ==
  /\ constructions <= 1
  /\ \A t, u \in 1..NumThreads :
       (thread[t].pc = "done" /\ thread[u].pc = "done") =>
         thread[t].returned = thread[u].returned

(***************************************************************************)
(* C21.  The decision stored and the decision returned, under Spec.        *)
(***************************************************************************)

\* C21: for every scoring call and every configured risk threshold, the
\* decision stored in the audit entry of the call is the decision returned
\* to the caller.
C21_StoredDecisionIsReturnedDecision ==
  (/\ call.op = "predict_credit_score"
   /\ response.status = 200
   /\ settings.enable_audit_logging
   /\ call.audit = "ok") =>
    Rows(audit_log)[Len(Rows(audit_log))].entry.decision = response.decision

(***************************************************************************)
(* C22.  The ranking of an explanation, under SpecExplain.                 *)
(***************************************************************************)

\* C22: top_features is ordered by non-increasing absolute contribution, has
\* exactly min(top_k, number of features) entries, no feature left out has a
\* larger absolute contribution than a retained one, and features of equal
\* magnitude keep their feature order.
C22_TopFeaturesRanked ==
  explained # NotExplained =>
    LET top == explained.top_features
        n == Len(instance.shap_values)
        abs(v) == IF v < 0 THEN -v ELSE v
        name(i) == IF instance.feature_names # <<>> THEN instance.feature_names[i]
                   ELSE "feature_" \o ToString(i - 1)
        column(r) == CHOOSE i \in 1..n : name(i) = top[r].feature
        retained == {column(r) : r \in 1..Len(top)}
    IN /\ Len(top) = IF instance.top_k < n THEN instance.top_k ELSE n
       /\ \A r \in 1..Len(top) :
            /\ top[r].feature \in {name(i) : i \in 1..n}
            /\ top[r].shap_value = instance.shap_values[column(r)]
       /\ Cardinality(retained) = Len(top)
       /\ \A r \in 1..(Len(top) - 1) :
            /\ abs(top[r].shap_value) >= abs(top[r + 1].shap_value)
            /\ abs(top[r].shap_value) = abs(top[r + 1].shap_value) => column(r) < column(r + 1)
       /\ \A i \in (1..n) \ retained : \A r \in 1..Len(top) :
            abs(instance.shap_values[i]) <= abs(top[r].shap_value)

\* Two of three features were asked for, the last feature has the largest
\* contribution and the first two have equal magnitude with opposite signs:
\* the last comes first, then the first, the second is left out.
C22_Witness ==
  /\ explained # NotExplained
  /\ instance.top_k = 2
  /\ instance.shap_values = <<-50000, 50000, 100000>>
  /\ instance.feature_names = <<>>
  /\ Len(explained.top_features) = 2
  /\ explained.top_features[1].feature = "feature_2"
  /\ explained.top_features[2].feature = "feature_0"

(***************************************************************************)
(* C25.  Impact tags and summary lines, under SpecExplain.                 *)
(***************************************************************************)

\* C25: each retained feature is tagged increases_risk exactly when its
\* contribution is strictly positive and decreases_risk otherwise, and the
\* summary text ends with one line per retained feature, numbered 1..k in
\* rank order, naming the feature and the direction of its tag.
C25_TagsAndLinesAgree ==
  explained # NotExplained =>
    LET top == explained.top_features
        text == explained.explanation.text
        line(r) == ToString(r) \o ". " \o top[r].feature \o ": "
                     \o (IF top[r].impact = "increases_risk" THEN "increases" ELSE "decreases")
                     \o " risk\n"
        lines[r \in 0..Len(top)] == IF r = 0 THEN "" ELSE lines[r - 1] \o line(r)
        listed == "Key factors influencing this decision:\n" \o lines[Len(top)]
    IN /\ \A r \in 1..Len(top) :
            top[r].impact = IF top[r].shap_value > 0 THEN "increases_risk" ELSE "decreases_risk"
       /\ Len(text) >= Len(listed)
       /\ SubSeq(text, Len(text) - Len(listed) + 1, Len(text)) = listed

\* An explanation of three features with contributions 0, 0.5 and -1: the
\* ranking is -1, 0.5, 0, tagged decreases, increases, decreases.
C25_Witness ==
  /\ explained # NotExplained
  /\ instance.shap_values = <<0, 50000, -100000>>
  /\ instance.top_k = 5
  /\ instance.feature_names = <<>>
  /\ explained.top_features[2].impact = "increases_risk"
  /\ explained.top_features[3].impact = "decreases_risk"
  /\ explained.top_features[3].shap_value = 0
  /\ explained.explanation.text =
       "Credit Default Risk: LOW (37.8% probability)\n\n"
         \o "Key factors influencing this decision:\n"
         \o "1. feature_2: decreases risk\n2. feature_1: increases risk\n"
         \o "3. feature_0: decreases risk\n"

(***************************************************************************)
(* C24.  The summary stored in an audit entry, under SpecAudit.            *)
(***************************************************************************)

\* C24: the explanation_summary stored is the explanation's summary text
\* when that has at most 200 characters, else its first 200 characters
\* followed by '...'; it is never longer than 203 characters; when there is
\* no summary text (no explanation, or a failed one) the fixed placeholder
\* is stored.
C24_SummaryCutAt200 ==
  call.op = "log_prediction" =>
    LET stored == LastRow.explanation_summary
        given == call.args.explanation
    IN /\ Len(stored) <= 203
       /\ given.kind # "ok" => stored = "No explanation available"
       /\ (given.kind = "ok" /\ Len(given.explanation.text) <= 200) =>
            stored = given.explanation.text
       /\ (given.kind = "ok" /\ Len(given.explanation.text) > 200) =>
            /\ Len(stored) = 203
            /\ SubSeq(stored, 1, 200) = SubSeq(given.explanation.text, 1, 200)
            /\ SubSeq(stored, 201, 203) = "..."

\* An entry was recorded with the explanation of five features, whose text
\* has more than 200 characters: 203 are stored.
C24_Witness ==
  /\ call.op = "log_prediction"
  /\ call.args.request_id = "req-2"
  /\ Len(call.args.explanation.explanation.text) > 200
  /\ Len(LastRow.explanation_summary) = 203

(***************************************************************************)
(* C23.  The high-risk flag, under SpecFE.                                 *)
(***************************************************************************)

\* C23: FeatureEngineer.transform sets is_high_risk_dsr to 1 exactly when
\* debt_service_ratio is strictly greater than 0.4 and to 0 otherwise, a
\* ratio of exactly 0.4 giving 0; the ratio is (total_existing_debt x 0.03 +
\* loan_amount / loan_term_months) / (annual_income / 12).
C23_HighRiskFlagAboveFourTenths ==
  X_fe # NoFrame =>
    LET ratio == X_fe.frame.debt_service_ratio
        flag == X_fe.frame.is_high_risk_dsr
        income == X.annual_income[1]
        term == X.loan_term_months[1]
        above == IF ratio[2] # 0 THEN 5 * ratio[1] > 2 * ratio[2] ELSE ratio[1] > 0
    IN /\ flag = IF above THEN 1 ELSE 0
       /\ ratio = <<2, 5>> => flag = 0
       /\ (income # 0 /\ term # 0) =>
            ratio = Float(12 * (3 * X.total_existing_debt[1] * term + 100 * X.loan_amount[1]),
                          100 * term * income)

\* A frame with income 120, no debt and a loan of 48 over 12 months has been
\* transformed: the ratio is exactly 0.4 and the flag 0.
C23_Witness ==
  /\ X_fe # NoFrame
  /\ X.annual_income = <<120, 1>>
  /\ X.loan_amount = <<48, 1>>
  /\ X.loan_term_months = <<12, 1>>
  /\ X.total_existing_debt = <<0, 1>>
  /\ X_fe.frame.debt_service_ratio = <<2, 5>>
  /\ X_fe.frame.is_high_risk_dsr = 0

(***************************************************************************)
(* C26 - C27.  Entries recorded at the same time, under SpecConc.          *)
(***************************************************************************)

\* C26: whatever the interleaving of the requests, every entry whose
\* log_prediction call has returned is still in the log: the file holds as
\* many whole rows recorded by the requests as log_prediction calls returned.
C26_NoRecordedEntryLost ==
  LET records == Records(audit_log.data)
      kept == {i \in 1..Len(records) :
                 /\ records[i].kind = "row"
                 /\ records[i].complete
                 /\ records[i].entry # PriorEntry}
  IN Cardinality(kept) >= recorded

\* C27: the entries of the audit log are in non-decreasing timestamp order,
\* also when requests record at the same time.
C27_TimestampsInLogOrder ==
  \A i, j \in 1..Len(Rows(audit_log)) :
    (i < j /\ Rows(audit_log)[i].complete /\ Rows(audit_log)[j].complete) =>
      StrLe(Rows(audit_log)[i].entry.timestamp, Rows(audit_log)[j].entry.timestamp)

(***************************************************************************)
(* C28.  The hash of the masked features, under SpecAudit.                 *)
(***************************************************************************)

\* C28: two record calls whose features are equal after masking, their
\* monetary fields rounding to the same 10,000,000 buckets, get the same
\* masked_features_hash, whatever their request_id, user_id, timestamp and
\* score and whatever the log held before.  The entry kept from an earlier
\* run was recorded for the schema's example application.
C28_HashOfMaskedFeaturesOnly ==
  call.op = "log_prediction" =>
    LET features == call.args.features
        nearest(a, m) == \/ -5 < a - 10 * m /\ a - 10 * m < 5
                         \/ a - 10 * m \in {-5, 5} /\ m % 2 = 0
        same_bucket(a, b) == \E m \in 0..20 : nearest(a, m) /\ nearest(b, m)
        same_masked == /\ DOMAIN features = DOMAIN SampleApplication
                       /\ \A field \in DOMAIN features :
                            IF field \in partial_mask_fields
                            THEN same_bucket(features[field], SampleApplication[field])
                            ELSE features[field] = SampleApplication[field]
    IN \A i \in 1..(Len(Rows(audit_log)) - 1) :
         (same_masked /\ Rows(audit_log)[i].entry = PriorEntry) =>
           LastRow.masked_features_hash = Rows(audit_log)[i].entry.masked_features_hash

\* After the entry kept from an earlier run (annual income 120,000,000,
\* user test_user, score 0.025), an entry was recorded for the same
\* application with annual income 118,000,000, no user and score 0.55, at a
\* later time: the two hashes are equal.
C28_Witness ==
  /\ call.op = "log_prediction"
  /\ call.args.features = [SampleApplication EXCEPT !.annual_income = 118]
  /\ Len(Rows(audit_log)) = 2
  /\ Rows(audit_log)[1].entry = PriorEntry
  /\ LastRow.timestamp = isoformat(1)
  /\ LastRow.user_id = "anonymous"
  /\ LastRow.masked_features_hash = PriorEntry.masked_features_hash

(***************************************************************************)
(* C29.  The order of the tiers, under SpecRisk.                           *)
(***************************************************************************)

\* C29: risk categorisation is monotone for the tier order VERY_LOW < LOW <
\* MEDIUM < HIGH < VERY_HIGH: a probability no larger gets a tier no higher;
\* and with the default threshold 0.5 a REJECT never comes with VERY_LOW or
\* LOW, an APPROVE never with HIGH or VERY_HIGH.
C29_TiersMonotone ==
  tiers.model_service # "" =>
    LET order == <<"VERY_LOW", "LOW", "MEDIUM", "HIGH", "VERY_HIGH">>
        rank(t) == CHOOSE i \in 1..Len(order) : order[i] = t
        decision == Decision(probability, settings.default_risk_threshold)
    IN /\ tiers.model_service \in {order[i] : i \in 1..Len(order)}
       /\ \A q \in RiskProbs :
            /\ q <= probability => rank(_categorize_risk(q)) <= rank(tiers.model_service)
            /\ q >= probability => rank(_categorize_risk(q)) >= rank(tiers.model_service)
       /\ decision = "REJECT" => tiers.model_service \notin {"VERY_LOW", "LOW"}
       /\ decision = "APPROVE" => tiers.model_service \notin {"HIGH", "VERY_HIGH"}

\* The probability 0.50001 has been categorised: MEDIUM, with REJECT as the
\* decision under the default threshold.
C29_Witness ==
  /\ probability = 50001
  /\ tiers.model_service = "MEDIUM"
  /\ settings.default_risk_threshold = DefaultRiskThreshold
  /\ Decision(probability, settings.default_risk_threshold) = "REJECT"

(***************************************************************************)
(* C30.  The summary header and the stored decision, under Spec.           *)
(***************************************************************************)

\* C30: for every scoring call whose explanation succeeds, the risk level in
\* the summary header is HIGH exactly when the decision stored in the call's
\* audit entry is REJECT, and LOW exactly when it is APPROVE.
C30_HeaderLevelMatchesStoredDecision ==
  (/\ call.op = "predict_credit_score"
   /\ response.status = 200
   /\ response.explanation.kind = "ok"
   /\ settings.enable_audit_logging
   /\ call.audit = "ok") =>
    LET stored == Rows(audit_log)[Len(Rows(audit_log))].entry
        header(level) == "Credit Default Risk: " \o level \o " ("
        starts(text, prefix) == Len(text) >= Len(prefix) /\ SubSeq(text, 1, Len(prefix)) = prefix
        high == /\ starts(response.explanation.explanation.text, header("HIGH"))
                /\ starts(stored.explanation_summary, header("HIGH"))
        low == /\ starts(response.explanation.explanation.text, header("LOW"))
               /\ starts(stored.explanation_summary, header("LOW"))
    IN /\ stored.decision \in {"REJECT", "APPROVE"}
       /\ high <=> stored.decision = "REJECT"
       /\ low <=> stored.decision = "APPROVE"

\* A call scored 0.5 under the threshold 0.25 was explained and recorded:
\* the header says LOW and the stored decision is APPROVE, while the
\* response carries REJECT.
C30_Witness ==
  /\ call.op = "predict_credit_score"
  /\ response.status = 200
  /\ response.explanation.kind = "ok"
  /\ response.explanation.explanation.risk_level = "LOW"
  /\ response.prediction_score = 50000
  /\ response.decision = "REJECT"
  /\ settings.enable_audit_logging
  /\ call.audit = "ok"
  /\ Rows(audit_log)[Len(Rows(audit_log))].entry.decision = "APPROVE"

====
